---- MODULE Spec2Model ----
(***************************************************************************)
(* Model of the Vine archive harvester (src/vine_full_harvest.go): the     *)
(* three-stage pipeline scan -> resolve -> harvest, its worker pools, the  *)
(* shared rate limiter, and the tmp-file-then-rename persister, over a     *)
(* file system of paths and byte sequences; and of the worker pool of the  *)
(* slug scanner (src/unnamed/part_000).                                    *)
(***************************************************************************)
EXTENDS Integers, Sequences, FiniteSets, TLC

\* ------------------------------------------------------------------ bounds
\* Identifiers accepted by the post endpoint (slugs and post ids): 1..MaxIds.
MaxIds == 2
\* User ids: 1..MaxUsers.
MaxUsers == 2
\* Distinct media files on the legacy CDN: 1..MaxMedia.
MaxMedia == 1
\* Largest value of the -workers flag explored.
MaxWorkers == 2
\* Longest "posts" list of a profile document.
MaxPosts == 2
\* Number of successive executions of the program on the same output root.
MaxRuns == 2
\* Number of storage operations (mkdir, create, write, rename, read) that fail.
MaxFaults == 1
\* Longest line of a source, in pieces of text.
MaxPieces == 4
\* Most lines in a source, and most sources in a corpus.
MaxLines == 2
MaxSources == 2
\* Longest string leaf, in pieces of text, and longest array of a JSON value.
MaxParts == 3
MaxElems == 2
\* Largest numeric postId of a served record.
MaxPostId == 20
\* Jobs of one stage: enough to fill the queue of a single worker.
MaxJobs == 3
\* Nested calls the goroutine stack holds before the runtime ends the process.
MaxStack == 2
\* Path elements in an id or a URL path taken from remote data.
MaxSegs == 3
\* Pages of a listing of the object store, and keys on a page.
MaxPages == 3
MaxKeys == 2

Ids == 1..MaxIds
Users == 1..MaxUsers
\* Every id a job can carry: the slugs, and further ones for a longer corpus.
JobIds == 1..MaxJobs
Media == 1..MaxMedia

\* ------------------------------------------------------------- data model
\* A JSON string leaf holding a media URL: host and path. NoURL: no such leaf.
NoURL == [host |-> "none", path |-> 0]
LegacyURLs == {[host |-> "legacy", path |-> m] : m \in Media}
MirrorURLs == {[host |-> "mirror", path |-> m] : m \in Media}

\* Post documents the post endpoint may serve. postIdStr / userIdStr 0: the
\* field is absent (or the empty string). Every post names its video on the
\* legacy CDN.
PostDocs ==
  {[kind |-> "post", postIdStr |-> p, userIdStr |-> u, url |-> x, posts |-> <<>>] :
      p \in 0..MaxIds, u \in 0..MaxUsers, x \in LegacyURLs}

RECURSIVE SeqsUpTo(_, _)
SeqsUpTo(S, n) ==
  IF n = 0 THEN {<<>>}
  ELSE LET shorter == SeqsUpTo(S, n - 1)
       IN shorter \cup {Append(s, x) : s \in {t \in shorter : Len(t) = n - 1}, x \in S}

\* Profile documents the profile endpoint may serve: the "posts" list, and the
\* avatar on the legacy CDN.
ProfileDocs ==
  {[kind |-> "profile", postIdStr |-> 0, userIdStr |-> 0, url |-> x, posts |-> ps] :
      ps \in SeqsUpTo(Ids, MaxPosts), x \in LegacyURLs}

\* A failed fetch (non-200 status, transport error, undecodable body).
FetchErr == [kind |-> "error", postIdStr |-> 0, userIdStr |-> 0, url |-> NoURL, posts |-> <<>>]
\* An endpoint that has not been asked yet: its answer is not fixed yet.
Unasked == [kind |-> "unasked", postIdStr |-> 0, userIdStr |-> 0, url |-> NoURL, posts |-> <<>>]
NoDoc == [kind |-> "none", postIdStr |-> 0, userIdStr |-> 0, url |-> NoURL, posts |-> <<>>]

\* A rewriter that returns every leaf as it is.
RewriteLeafKept(x) == x

\* rewriteURLs: every string leaf on a legacy CDN host moves to the mirror host,
\* its path kept; everything else is returned as it is.
RewriteLeaf(x) ==
  IF x.host = "legacy" THEN [host |-> "mirror", path |-> x.path] ELSE x

rewriteURLs(doc) == [doc EXCEPT !.url = RewriteLeaf(doc.url)]

\* The user id of a fetched post: userIdStr when non-empty (0: none found).
ExtractUserID(doc) == doc.userIdStr

\* The real post id: postIdStr when non-empty, else the identifier requested.
ExtractRealID(doc, requested) ==
  IF doc.postIdStr # 0 THEN doc.postIdStr ELSE requested

RECURSIVE Dedup(_, _)
Dedup(s, seen) ==
  IF s = <<>> THEN <<>>
  ELSE IF Head(s) \in seen THEN Dedup(Tail(s), seen)
       ELSE <<Head(s)>> \o Dedup(Tail(s), seen \cup {Head(s)})

\* collectPostIDsFromProfile: the ids of the "posts" list in first-seen order,
\* without duplicates.
collectPostIDsFromProfile(doc) == Dedup(doc.posts, {})

\* collectMediaURLs: the string leaves on the mirror host that name a media file.
collectMediaURLs(doc) ==
  IF doc.url.host = "mirror" THEN <<doc.url.path>> ELSE <<>>

\* ------------------------------------------------------------ JSON encoding
\* File contents are sequences of tokens <<key, tag, number>>.
RECURSIVE EncodeIds(_)
EncodeIds(s) ==
  IF s = <<>> THEN <<>> ELSE <<<<"id", "", Head(s)>>>> \o EncodeIds(Tail(s))

\* json.Encoder.Encode of a decoded document: the fields present, keys sorted,
\* closed by "}\n".
Encode(doc) ==
  <<<<"{", doc.kind, 0>>>>
    \o (IF doc.kind = "profile"
        THEN <<<<"posts[", "", Len(doc.posts)>>>> \o EncodeIds(doc.posts) \o <<<<"]", "", 0>>>>
        ELSE <<>>)
    \o (IF doc.postIdStr # 0 THEN <<<<"postIdStr", "", doc.postIdStr>>>> ELSE <<>>)
    \o (IF doc.url.host # "none" THEN <<<<"url", doc.url.host, doc.url.path>>>> ELSE <<>>)
    \o (IF doc.userIdStr # 0 THEN <<<<"userIdStr", "", doc.userIdStr>>>> ELSE <<>>)
    \o <<<<"}", "", 0>>>>

\* json.Encoder.Encode of the list of discovered user ids (profiles.json).
EncodeList(s) == <<<<"[", "", Len(s)>>>> \o EncodeIds(s) \o <<<<"]", "", 0>>>>

\* The bytes of media file m as served by the mirror host.
MediaBytes(m) == <<<<"media", "", m>>, <<"eof", "", m>>>>

AllDocs == PostDocs \cup ProfileDocs \cup {rewriteURLs(d) : d \in PostDocs \cup ProfileDocs}

\* Whether a byte sequence is the complete encoding of one record.
IsCompleteRecord(data) ==
  \/ \E d \in AllDocs : data = Encode(d)
  \/ \E m \in Media : data = MediaBytes(m)

\* json.Unmarshal of a file's bytes: the document, or NoDoc when they do not decode.
Decode(data) ==
  IF \E d \in AllDocs : data = Encode(d)
  THEN CHOOSE d \in AllDocs : data = Encode(d)
  ELSE NoDoc

\* -------------------------------------------------------------- file system
\* A path of the output tree: dir is "profiles" (profiles/<a>.json), "posts"
\* (posts/<a>/<b>.json), "media" (media/<a>) or "index" (profiles.json); tmp
\* marks the same path with ".tmp" appended.
FinalPaths ==
  {[dir |-> "profiles", a |-> u, b |-> 0, tmp |-> FALSE] : u \in Users}
    \cup {[dir |-> "posts", a |-> u, b |-> p, tmp |-> FALSE] : u \in Users, p \in Ids}
    \cup {[dir |-> "media", a |-> m, b |-> 0, tmp |-> FALSE] : m \in Media}
    \cup {[dir |-> "index", a |-> 0, b |-> 0, tmp |-> FALSE]}

TmpOf(path) == [path EXCEPT !.tmp = TRUE]
Paths == FinalPaths \cup {TmpOf(p) : p \in FinalPaths}

ProfilePath(u) == [dir |-> "profiles", a |-> u, b |-> 0, tmp |-> FALSE]
PostPath(u, p) == [dir |-> "posts", a |-> u, b |-> p, tmp |-> FALSE]
MediaPath(m) == [dir |-> "media", a |-> m, b |-> 0, tmp |-> FALSE]
IndexPath == [dir |-> "index", a |-> 0, b |-> 0, tmp |-> FALSE]

\* No open file, and an open file whose inode no longer has a name.
NoFd == [dir |-> "nofd", a |-> 0, b |-> 0, tmp |-> FALSE]
Orphan == [dir |-> "orphan", a |-> 0, b |-> 0, tmp |-> FALSE]

Absent == [exists |-> FALSE, data |-> <<>>]

\* A write of bytes at offset 0 of a file holding old: the bytes, then what
\* old holds past them.
Overlay(old, bytes) ==
  IF Len(old) > Len(bytes) THEN bytes \o SubSeq(old, Len(bytes) + 1, Len(old)) ELSE bytes

\* os.Create: a new empty file, or the existing file truncated to length 0.
FsCreate(f, path) == [f EXCEPT ![path] = [exists |-> TRUE, data |-> <<>>]]

\* File.Write through a descriptor whose inode is now named fdPath.
FsWrite(f, fdPath, bytes) ==
  IF fdPath \in Paths /\ f[fdPath].exists
  THEN [f EXCEPT ![fdPath].data = Overlay(@, bytes)]
  ELSE f

\* os.Rename: the inode named from takes the name to, replacing what was there.
FsRename(f, from, to) == [f EXCEPT ![to] = f[from], ![from] = Absent]

\* Where an open descriptor's inode is after rename(from, to).
FdAfterRename(fd, from, to) ==
  IF fd = from THEN to ELSE IF fd = to THEN Orphan ELSE fd

\* ------------------------------------------------------------------- state
VARIABLES
  run,          \* number of the current execution, 1..MaxRuns
  workers,      \* the -workers flag
  download,     \* the -download flag
  faults,       \* whether the storage may fail (disk full, permissions)
  postDocs,     \* what the post endpoint may answer (documents, FetchErr)
  profDocs,     \* what the profile endpoint may answer (documents, FetchErr)
  corpus,       \* the slugs collectVineSlugs finds in the input directory
  mainPc,       \* where main is
  pending,      \* jobs main has still to send
  jobs,         \* the jobs channel's buffer
  closed,       \* whether the jobs channel is closed
  wg,           \* the WaitGroup counter
  wk,           \* the workers: pc and locals of each goroutine
  userSet,      \* user ids discovered by the resolve stage
  userMu,       \* holder of userMu (0: free)
  userIDs,      \* the slice fetchUsersFromSlugs returned
  downloadedMedia, \* media URLs already taken by a download
  mediaMu,      \* holder of downloadedMedia.mu (0: free)
  fs,           \* the output tree: path -> exists, data
  tickBuf,      \* ticks waiting in the rateLimiter channel (capacity 1)
  postEP,       \* the post endpoint's answer for each id, once asked
  profEP,       \* the profile endpoint's answer for each user, once asked
  mediaEP,      \* the media host's answer for each file, once asked
  slugs,        \* the slug scanner's set of slugs
  slugMu,       \* holder of the scanner's mutex (0: free)
  slugFile,     \* vine_slugs.txt as the scanner wrote it
  arg,          \* the argument of the function under call (<<>>: none)
  res,          \* its result (<<>>: not returned yet)
  hist          \* history: counters and snapshots the properties read

vars == <<run, workers, download, faults, postDocs, profDocs, corpus, mainPc, pending, jobs, closed, wg, wk,
          userSet, userMu, userIDs, downloadedMedia, mediaMu, fs, tickBuf,
          postEP, profEP, mediaEP, slugs, slugMu, slugFile, arg, res, hist>>

envVars == <<workers, download, faults, postDocs, profDocs, corpus>>
poolVars == <<pending, jobs, closed, wg>>
epVars == <<postEP, profEP, mediaEP>>
scanVars == <<slugs, slugMu, slugFile>>
fnVars == <<arg, res>>

WorkerIds == 1..MaxWorkers

\* Where main is in one of the slug scanners.
InScanner ==
  mainPc \in {"start", "new_client", "s_list", "s_local", "s_send", "s_wait", "s_write", "s_done",
              "s_failed", "sleep", "exit", "fatal_runonce", "fatal_env", "fatal_config",
              "fatal_stack"}

\* The goroutines a pool starts: for i := 0; i < *workers; i++ in the
\* harvester; the scanners start at least one (workerCount < 1 becomes 1).
workerCount == IF InScanner /\ workers < 1 THEN 1 ELSE workers
Running == 1..workerCount

\* A goroutine that has not been started.
IdleWorker ==
  [pc |-> "none", job |-> 0, doc |-> NoDoc, realID |-> 0, posts |-> <<>>,
   media |-> <<>>, path |-> NoFd, data |-> <<>>, ret |-> "none", fd |-> NoFd,
   existed |-> FALSE]

\* The request counters of one execution.
NoRequests ==
  [resolve |-> [i \in JobIds |-> 0],
   profile |-> [u \in Users |-> 0],
   harvest |-> [u \in Users |-> [i \in Ids |-> 0]],
   media |-> [m \in Media |-> 0]]

InitHist ==
  [ticks |-> 0,            \* ticks the rate limiter delivered
   passed |-> 0,           \* receives from rateLimiter
   requests |-> 0,         \* HTTP requests for JSON documents
   mediaRequests |-> 0,    \* HTTP requests for media files
   req |-> NoRequests,     \* requests of this execution, by endpoint and id
   handled |-> [j \in JobIds \cup Users |-> 0],  \* handler runs of this stage, by job
   sent |-> {},            \* jobs sent on the channel in this stage
   read |-> {},            \* objects the scanner has read to their end
   ioErrs |-> 0,           \* storage operations that have failed
   fsRun1 |-> [p \in Paths |-> Absent],       \* the tree when execution 1 ended
   errsRun1 |-> 0,         \* storage operations that had failed when execution 1 ended
   refetched |-> {},       \* <<user, post id>> fetched though its file existed
   profSeen |-> [u \in Users |-> "-"],  \* whether u's profile file was there at job start
   listed |-> [u \in Users |-> <<>>],   \* the post ids processUser took from u's profile
   mark |-> 0]             \* requests - ticks when the observed window began

TypeOK ==
  /\ run \in 1..MaxRuns
  /\ workers \in -1..MaxWorkers
  /\ download \in BOOLEAN
  /\ faults \in BOOLEAN
  /\ postDocs \subseteq PostDocs \cup {FetchErr}
  /\ profDocs \subseteq ProfileDocs \cup {FetchErr}
  /\ corpus \subseteq JobIds
  /\ closed \in BOOLEAN
  /\ wg \in 0..MaxWorkers
  /\ userSet \subseteq Users
  /\ tickBuf \in 0..1
  /\ DOMAIN fs = Paths

\* The in-memory state of a process that has just started, on an empty
\* output tree.
Fresh ==
  /\ run = 1
  /\ slugs = {}
  /\ slugMu = 0
  /\ slugFile = <<>>
  /\ pending = <<>>
  /\ jobs = <<>>
  /\ closed = FALSE
  /\ wg = 0
  /\ wk = [w \in WorkerIds |-> IdleWorker]
  /\ userSet = {}
  /\ userMu = 0
  /\ userIDs = <<>>
  /\ downloadedMedia = {}
  /\ mediaMu = 0
  /\ fs = [p \in Paths |-> Absent]
  /\ tickBuf = 0
  /\ postEP = [i \in JobIds |-> Unasked]
  /\ profEP = [u \in Users |-> Unasked]
  /\ mediaEP = [m \in Media |-> "unasked"]
  /\ hist = InitHist

\* The state after flag.Parse(), for the flag values and input directories in
\* W, D, F, C, the endpoint answers PD and FD, and the programs in E ("scan":
\* the harvester's main, "s_list": the slug scanner's runOnce).
InitWith(W, D, F, C, PD, FD, E) ==
  /\ workers \in W
  /\ download \in D
  /\ faults \in F
  /\ postDocs = PD
  /\ profDocs = FD
  /\ corpus \in C
  /\ mainPc \in E
  /\ arg = <<>>
  /\ res = <<>>
  /\ Fresh

\* A call of one function of the program on an argument of A, outside any
\* run of the pipeline.
InitCall(fn, A) ==
  /\ workers = 1
  /\ download = FALSE
  /\ faults = FALSE
  /\ postDocs = {FetchErr}
  /\ profDocs = {FetchErr}
  /\ corpus = {}
  /\ mainPc = fn
  /\ arg \in A
  /\ res = <<>>
  /\ Fresh

\* ------------------------------------------------------------------ helpers
Perms(S) ==
  {s \in SeqsUpTo(S, Cardinality(S)) :
      Len(s) = Cardinality(S) /\ \A i, j \in 1..Len(s) : i # j => s[i] # s[j]}

InResolve == mainPc \in {"r_send", "r_wait"}
InHarvest == mainPc \in {"h_send", "h_wait"}
InScan == mainPc \in {"s_send", "s_wait"}

\* A queue with room for one job more.
JobsCapPlusOne == workers * 2 + 1

\* cap(jobs): make(chan string, *workers*2) in the harvester,
\* make(chan job, *flagWorkers) in the scanner.
JobsCap ==
  IF InScan
  THEN IF arg # <<>> /\ arg.prog = "vine-harvester" THEN 0 ELSE workers
  ELSE workers * 2

\* A send that never waits.
CanSendAlways == TRUE

\* Whether jobs <- x can proceed: there is room in the buffer or, on a
\* channel without buffer, a worker is waiting to receive.
CanSend ==
  IF JobsCap = 0
  THEN jobs = <<>> /\ \E w \in Running : wk[w].pc = "recv"
  ELSE Len(jobs) < JobsCap

fileExists(path) == fs[path].exists

\* The answers an endpoint can give: the one it gave before, or, the first time
\* it is asked, any of those explored (the endpoints are deterministic).
PostAnswers(id) ==
  IF postEP[id] = Unasked THEN postDocs ELSE {postEP[id]}
ProfileAnswers(u) ==
  IF profEP[u] = Unasked THEN profDocs ELSE {profEP[u]}
MediaAnswers(m) ==
  IF mediaEP[m] = "unasked" THEN {"ok", "error"} ELSE {mediaEP[m]}

Remember(ep, k, resp) == [ep EXCEPT ![k] = resp]

\* Whether a storage operation may fail now.
CanFail == faults /\ hist.ioErrs < MaxFaults

\* A rate limiter that lets every receive through.
RateGateOpen == TRUE

\* Whether a receive from rateLimiter can proceed.
RateGateReady == tickBuf > 0

\* A wait that returns as soon as the channel is closed.
WaitDoneEarly == closed

\* Whether wg.Wait() can return: every worker has called wg.Done().
WaitDone == wg = 0

\* The goroutines of a pool, each at its "for job := range jobs".
Started ==
  [w \in WorkerIds |-> IF w \in Running THEN [IdleWorker EXCEPT !.pc = "recv"] ELSE IdleWorker]

\* processUser's loop over postIDs: on to the next post id, or return.
NextPost(r) ==
  IF Len(r.posts) <= 1
  THEN [r EXCEPT !.pc = "recv", !.posts = <<>>, !.media = <<>>]
  ELSE [r EXCEPT !.pc = "h_gate", !.posts = Tail(r.posts), !.media = <<>>]

\* The loop over mediaURLs: on to the next URL, or to the next post id.
NextMedia(r) ==
  IF Len(r.media) <= 1 THEN NextPost(r)
  ELSE [r EXCEPT !.pc = "m_lock", !.media = Tail(r.media)]

\* A failed post fetch that ends the user's job.
OnPostErrorReturn(r) == [r EXCEPT !.pc = "recv", !.posts = <<>>, !.media = <<>>]

\* A processUser that asks again for a post whose fetch has failed.
OnPostErrorRetry(r) == [r EXCEPT !.pc = "h_gate"]

\* processUser after a failed post fetch: the error is logged and the loop
\* continues with the next post id.
OnPostError(r) == NextPost(r)

\* Whether processUser goes on to the media of a post it has just written
\* (it does after a failed write too: the error is only logged).
DownloadsMedia(r) == download /\ collectMediaURLs(r.doc) # <<>>

\* Where a worker continues when writeJSONFile (or the media write) returns.
AfterWrite(r, ok) ==
  LET c == [r EXCEPT !.fd = NoFd, !.path = NoFd, !.data = <<>>, !.ret = "none"]
  IN CASE r.ret = "resolve" -> [c EXCEPT !.pc = "recv"]
       [] r.ret = "profile" -> [c EXCEPT !.pc = IF ok THEN "h_read" ELSE "recv"]
       [] r.ret = "post" ->
            IF DownloadsMedia(r)
            THEN [c EXCEPT !.pc = "m_lock", !.media = collectMediaURLs(r.doc)]
            ELSE NextPost(c)
       [] OTHER -> NextMedia(c)

\* A call of writeJSONFile(path, doc) or of the media write of downloadMedia.
CallWrite(r, path, data, ret) ==
  [r EXCEPT !.pc = "w_create", !.path = path, !.data = data, !.ret = ret]

Bump(f, k) == [f EXCEPT ![k] = @ + 1]

\* --------------------------------------------------------------------- main
\* A list that holds every key once per discovery: each key twice.
RangeRepeated(m) == {s \o s : s \in Perms(m)}

\* for k := range m { list = append(list, k) }: the keys of a Go map, each
\* once, in any order (slugs from slugSet, userIDs from userSet).
RangeKeys(m) == Perms(m)

\* main, step 1: collectVineSlugs; fatal when no slug was found; else
\* fetchUsersFromSlugs starts its workers.
Scan ==
  /\ mainPc = "scan"
  /\ IF corpus = {}
     THEN /\ mainPc' = "fatal_noslugs"
          /\ UNCHANGED <<pending, wg, wk, hist>>
     ELSE IF workers < 0
     THEN /\ mainPc' = "panic_makechan"
          /\ UNCHANGED <<pending, wg, wk, hist>>
     ELSE /\ mainPc' = "r_send"
          /\ pending' \in RangeKeys(corpus)
          /\ wg' = workers
          /\ wk' = Started
          /\ hist' = [hist EXCEPT !.handled = [j \in JobIds \cup Users |-> 0], !.sent = {}]
  /\ jobs' = <<>>
  /\ closed' = FALSE
  /\ userSet' = {}
  /\ UNCHANGED <<run, envVars, fnVars, scanVars, userMu, userIDs, downloadedMedia, mediaMu, fs, tickBuf, epVars>>

\* jobs <- slug / jobs <- uid: blocks while the buffer is full.
Send ==
  /\ mainPc \in {"r_send", "h_send", "s_send"}
  /\ pending # <<>>
  /\ CanSend
  /\ jobs' = Append(jobs, Head(pending))
  /\ pending' = Tail(pending)
  /\ hist' = [hist EXCEPT !.sent = @ \cup {Head(pending)}]
  /\ UNCHANGED <<run, envVars, fnVars, scanVars, mainPc, closed, wg, wk, userSet, userMu, userIDs,
                 downloadedMedia, mediaMu, fs, tickBuf, epVars>>

\* close(jobs), after the last send.
Close ==
  /\ mainPc \in {"r_send", "h_send", "s_send"}
  /\ pending = <<>>
  /\ closed' = TRUE
  /\ mainPc' = CASE mainPc = "r_send" -> "r_wait"
                  [] mainPc = "h_send" -> "h_wait"
                  [] OTHER -> "s_wait"
  /\ UNCHANGED <<run, envVars, fnVars, scanVars, pending, jobs, wg, wk, userSet, userMu, userIDs,
                 downloadedMedia, mediaMu, fs, tickBuf, epVars, hist>>

\* A main that goes on whatever the resolve stage found.
NoUserIDsIgnored(ids) == FALSE

\* len(userIDs) == 0: the resolve stage discovered no user.
NoUserIDs(ids) == ids = {}

\* wg.Wait() of fetchUsersFromSlugs returns; userIDs is built from the map (in
\* any order); main is fatal when it is empty.
ResolveWait ==
  /\ mainPc = "r_wait"
  /\ WaitDone
  /\ userIDs' \in RangeKeys(userSet)
  /\ mainPc' = IF NoUserIDs(userSet) THEN "fatal_nousers" ELSE "index"
  /\ UNCHANGED <<run, envVars, fnVars, scanVars, poolVars, wk, userSet, userMu, downloadedMedia, mediaMu,
                 fs, tickBuf, epVars, hist>>

\* main writes profiles.json (a failure is a warning), then starts the harvest
\* workers.
WriteIndex ==
  /\ mainPc = "index"
  /\ \/ /\ fs' = [fs EXCEPT ![IndexPath] = [exists |-> TRUE, data |-> EncodeList(userIDs)]]
        /\ hist' = [hist EXCEPT !.handled = [j \in JobIds \cup Users |-> 0], !.sent = {}]
     \/ /\ CanFail
        /\ fs' = fs
        /\ hist' = [hist EXCEPT !.handled = [j \in JobIds \cup Users |-> 0], !.sent = {},
                                !.ioErrs = @ + 1]
  /\ mainPc' = "h_send"
  /\ pending' = userIDs
  /\ jobs' = <<>>
  /\ closed' = FALSE
  /\ wg' = workers
  /\ wk' = Started
  /\ UNCHANGED <<run, envVars, fnVars, scanVars, userSet, userMu, userIDs, downloadedMedia, mediaMu,
                 tickBuf, epVars>>

\* wg.Wait() of main returns: "All done."
HarvestWait ==
  /\ mainPc = "h_wait"
  /\ WaitDone
  /\ mainPc' = "done"
  /\ hist' = IF run = 1 THEN [hist EXCEPT !.fsRun1 = fs, !.errsRun1 = hist.ioErrs] ELSE hist
  /\ UNCHANGED <<run, envVars, fnVars, scanVars, poolVars, wk, userSet, userMu, userIDs, downloadedMedia,
                 mediaMu, fs, tickBuf, epVars>>

\* The program is executed again on the same input and output directories: a
\* new process, with empty in-memory sets and a new ticker.
NextRun ==
  /\ mainPc = "done"
  /\ run < MaxRuns
  /\ run' = run + 1
  /\ mainPc' = "scan"
  /\ pending' = <<>>
  /\ jobs' = <<>>
  /\ closed' = FALSE
  /\ wg' = 0
  /\ wk' = [w \in WorkerIds |-> IdleWorker]
  /\ userSet' = {}
  /\ userIDs' = <<>>
  /\ downloadedMedia' = {}
  /\ tickBuf' = 0
  /\ hist' = [hist EXCEPT !.req = NoRequests, !.refetched = {},
                          !.profSeen = [u \in Users |-> "-"],
                          !.listed = [u \in Users |-> <<>>]]
  /\ UNCHANGED <<envVars, fnVars, scanVars, userMu, mediaMu, fs, epVars>>

\* ------------------------------------------------------------- rate limiter
\* time.Tick delivers a tick into its channel of capacity 1 (a tick that finds
\* the channel full is dropped and changes nothing; so is a tick between stages,
\* which at most fills the channel the way the first tick of the stage does).
Tick ==
  /\ tickBuf = 0
  /\ mainPc \in {"r_send", "r_wait", "h_send", "h_wait"}
  /\ tickBuf' = 1
  /\ hist' = [hist EXCEPT !.ticks = @ + 1]
  /\ UNCHANGED <<run, envVars, fnVars, scanVars, mainPc, poolVars, wk, userSet, userMu, userIDs,
                 downloadedMedia, mediaMu, fs, epVars>>

\* An observer of the request log begins a window: from here on it counts
\* the ticks and the requests.
Mark ==
  /\ mainPc \in {"r_send", "r_wait", "h_send", "h_wait"}
  /\ hist.mark # hist.requests - hist.ticks
  /\ hist' = [hist EXCEPT !.mark = hist.requests - hist.ticks]
  /\ UNCHANGED <<run, envVars, fnVars, scanVars, mainPc, poolVars, wk, userSet, userMu, userIDs,
                 downloadedMedia, mediaMu, fs, tickBuf, epVars>>

\* ------------------------------------------------------------------ workers
SetW(w, r) == wk' = [wk EXCEPT ![w] = r]

\* A receive that leaves the job in the buffer.
DequeueKeep(q) == q

\* What a receive leaves in the channel's buffer.
Dequeue(q) == Tail(q)

\* for job := range jobs: receive the next job.
Take(w) ==
  /\ w \in Running
  /\ wk[w].pc = "recv"
  /\ jobs # <<>>
  /\ jobs' = Dequeue(jobs)
  /\ SetW(w, [IdleWorker EXCEPT !.job = Head(jobs),
                                !.pc = CASE InResolve -> "r_gate"
                                         [] InHarvest -> "h_start"
                                         [] OTHER -> "s_get"])
  /\ hist' = [hist EXCEPT !.handled = Bump(@, Head(jobs))]
  /\ UNCHANGED <<run, envVars, fnVars, scanVars, mainPc, pending, closed, wg, userSet, userMu, userIDs,
                 downloadedMedia, mediaMu, fs, tickBuf, epVars>>

\* A loop that ends as soon as the channel is closed.
RangeEndsOnClose == closed

\* Whether "for job := range jobs" ends: the channel is closed and drained.
RangeEnds == closed /\ jobs = <<>>

\* for job := range jobs: the channel is closed and empty; defer wg.Done().
Exit(w) ==
  /\ w \in Running
  /\ wk[w].pc = "recv"
  /\ RangeEnds
  /\ wg' = wg - 1
  /\ SetW(w, [IdleWorker EXCEPT !.pc = "exit"])
  /\ UNCHANGED <<run, envVars, fnVars, scanVars, mainPc, pending, jobs, closed, userSet, userMu, userIDs,
                 downloadedMedia, mediaMu, fs, tickBuf, epVars, hist>>

\* fetchJSONMap: <-rateLimiter.
Gate(w) ==
  /\ w \in Running
  /\ wk[w].pc \in {"r_gate", "h_pgate", "h_gate"}
  /\ RateGateReady
  /\ tickBuf' = 0
  /\ SetW(w, [wk[w] EXCEPT
        !.pc = CASE wk[w].pc = "r_gate" -> "r_http"
                 [] wk[w].pc = "h_pgate" -> "h_phttp"
                 [] OTHER -> "h_http",
        !.existed = IF wk[w].pc = "h_gate"
                    THEN fileExists(PostPath(wk[w].job, Head(wk[w].posts)))
                    ELSE @])
  /\ hist' = [hist EXCEPT !.passed = @ + 1]
  /\ UNCHANGED <<run, envVars, fnVars, scanVars, mainPc, poolVars, userSet, userMu, userIDs,
                 downloadedMedia, mediaMu, fs, epVars>>

\* Resolve worker: the post of a slug is requested; on an error, or when the
\* post names no user, the slug is dropped.
ResolveFetch(w) ==
  /\ w \in Running
  /\ wk[w].pc = "r_http"
  /\ \E resp \in PostAnswers(wk[w].job) :
       LET doc == rewriteURLs(resp)
           r == wk[w]
       IN /\ postEP' = Remember(postEP, r.job, resp)
          /\ SetW(w, IF resp = FetchErr \/ ExtractUserID(doc) = 0
                     THEN [r EXCEPT !.pc = "recv"]
                     ELSE [r EXCEPT !.pc = "r_lock", !.doc = doc,
                                    !.realID = ExtractRealID(doc, r.job)])
  /\ hist' = [hist EXCEPT !.requests = @ + 1,
                          !.req.resolve = Bump(@, wk[w].job)]
  /\ UNCHANGED <<run, envVars, fnVars, scanVars, mainPc, poolVars, userSet, userMu, userIDs,
                 downloadedMedia, mediaMu, fs, tickBuf, profEP, mediaEP>>

\* userMu.Lock()
ResolveLock(w) ==
  /\ w \in Running
  /\ wk[w].pc = "r_lock"
  /\ userMu = 0
  /\ userMu' = w
  /\ SetW(w, [wk[w] EXCEPT !.pc = "r_ins"])
  /\ UNCHANGED <<run, envVars, fnVars, scanVars, mainPc, poolVars, userSet, userIDs, downloadedMedia,
                 mediaMu, fs, tickBuf, epVars, hist>>

\* userSet[userID] = struct{}{}; userMu.Unlock()
ResolveInsert(w) ==
  /\ w \in Running
  /\ wk[w].pc = "r_ins"
  /\ userSet' = userSet \cup {ExtractUserID(wk[w].doc)}
  /\ userMu' = 0
  /\ SetW(w, [wk[w] EXCEPT !.pc = "r_check"])
  /\ UNCHANGED <<run, envVars, fnVars, scanVars, mainPc, poolVars, userIDs, downloadedMedia, mediaMu,
                 fs, tickBuf, epVars, hist>>

\* A resolve worker that writes whatever is at the destination.
ResolveWritesAlways(path) == TRUE

\* A resolve worker that only records the user and writes nothing.
ResolveWritesNever(path) == FALSE

\* Whether the resolve worker writes the post it fetched: only when no file is
\* at its destination yet.
ResolveWrites(path) == ~fileExists(path)

\* os.MkdirAll of posts/<userID> (on failure the slug is dropped), then the
\* existence check of posts/<userID>/<realID>.json.
ResolveCheck(w) ==
  /\ w \in Running
  /\ wk[w].pc = "r_check"
  /\ LET r == wk[w]
         postFile == PostPath(ExtractUserID(r.doc), r.realID)
     IN \/ /\ SetW(w, IF ResolveWrites(postFile)
                      THEN CallWrite(r, postFile, Encode(r.doc), "resolve")
                      ELSE [r EXCEPT !.pc = "recv"])
           /\ hist' = hist
        \/ /\ CanFail
           /\ SetW(w, [r EXCEPT !.pc = "recv"])
           /\ hist' = [hist EXCEPT !.ioErrs = @ + 1]
  /\ UNCHANGED <<run, envVars, fnVars, scanVars, mainPc, poolVars, userSet, userMu, userIDs,
                 downloadedMedia, mediaMu, fs, tickBuf, epVars>>

\* ------------------------------------------------------------ writeJSONFile
\* os.Create(path + ".tmp"): a failure returns the error.
WriteCreate(w) ==
  /\ w \in Running
  /\ wk[w].pc = "w_create"
  /\ \/ /\ fs' = FsCreate(fs, TmpOf(wk[w].path))
        /\ SetW(w, [wk[w] EXCEPT !.pc = "w_write", !.fd = TmpOf(wk[w].path)])
        /\ hist' = hist
     \/ /\ CanFail
        /\ fs' = fs
        /\ SetW(w, AfterWrite(wk[w], FALSE))
        /\ hist' = [hist EXCEPT !.ioErrs = @ + 1]
  /\ UNCHANGED <<run, envVars, fnVars, scanVars, mainPc, poolVars, userSet, userMu, userIDs,
                 downloadedMedia, mediaMu, tickBuf, epVars>>

\* enc.Encode(data) (one write of the whole encoding) and f.Close(); a failure
\* of either returns the error and leaves the temporary file.
WriteData(w) ==
  /\ w \in Running
  /\ wk[w].pc = "w_write"
  /\ \/ /\ fs' = FsWrite(fs, wk[w].fd, wk[w].data)
        /\ SetW(w, [wk[w] EXCEPT !.pc = "w_rename", !.fd = NoFd])
        /\ hist' = hist
     \/ /\ CanFail
        /\ fs' = fs
        /\ SetW(w, AfterWrite(wk[w], FALSE))
        /\ hist' = [hist EXCEPT !.ioErrs = @ + 1]
  /\ UNCHANGED <<run, envVars, fnVars, scanVars, mainPc, poolVars, userSet, userMu, userIDs,
                 downloadedMedia, mediaMu, tickBuf, epVars>>

\* os.Rename(tmp, path): fails when tmp is no longer there, or for any other
\* reason of the storage.
WriteRename(w) ==
  /\ w \in Running
  /\ wk[w].pc = "w_rename"
  /\ LET to == wk[w].path
         from == TmpOf(to)
     IN \/ /\ fileExists(from)
           /\ fs' = FsRename(fs, from, to)
           /\ wk' = [v \in WorkerIds |->
                       IF v = w THEN AfterWrite(wk[w], TRUE)
                       ELSE [wk[v] EXCEPT !.fd = FdAfterRename(@, from, to)]]
           /\ hist' = hist
        \/ /\ ~fileExists(from)
           /\ fs' = fs
           /\ SetW(w, AfterWrite(wk[w], FALSE))
           /\ hist' = hist
        \/ /\ CanFail
           /\ fileExists(from)
           /\ fs' = fs
           /\ SetW(w, AfterWrite(wk[w], FALSE))
           /\ hist' = [hist EXCEPT !.ioErrs = @ + 1]
  /\ UNCHANGED <<run, envVars, fnVars, scanVars, mainPc, poolVars, userSet, userMu, userIDs,
                 downloadedMedia, mediaMu, tickBuf, epVars>>

\* ------------------------------------------------------------- processUser
\* A processUser that fetches the profile whatever is persisted.
FetchesProfileAlways(u) == TRUE

\* Whether processUser fetches the profile: only when profiles/<userID>.json
\* is not there.
FetchesProfile(u) == ~fileExists(ProfilePath(u))

\* processUser, 1): the existence check of the profile file.
HarvestStart(w) ==
  /\ w \in Running
  /\ wk[w].pc = "h_start"
  /\ SetW(w, [wk[w] EXCEPT !.pc = IF FetchesProfile(wk[w].job) THEN "h_pgate" ELSE "h_read",
                           !.existed = fileExists(ProfilePath(wk[w].job))])
  /\ hist' = [hist EXCEPT !.profSeen[wk[w].job] =
                            IF fileExists(ProfilePath(wk[w].job)) THEN "yes" ELSE "no"]
  /\ UNCHANGED <<run, envVars, fnVars, scanVars, mainPc, poolVars, userSet, userMu, userIDs,
                 downloadedMedia, mediaMu, fs, tickBuf, epVars>>

\* The profile is requested; an error ends the job; else the rewritten
\* profile goes to writeJSONFile.
ProfileFetch(w) ==
  /\ w \in Running
  /\ wk[w].pc = "h_phttp"
  /\ \E resp \in ProfileAnswers(wk[w].job) :
       LET r == wk[w]
       IN /\ profEP' = Remember(profEP, r.job, resp)
          /\ SetW(w, IF resp = FetchErr
                     THEN [r EXCEPT !.pc = "recv"]
                     ELSE CallWrite([r EXCEPT !.doc = rewriteURLs(resp)], ProfilePath(r.job),
                                    Encode(rewriteURLs(resp)), "profile"))
  /\ hist' = [hist EXCEPT !.requests = @ + 1,
                          !.req.profile = Bump(@, wk[w].job)]
  /\ UNCHANGED <<run, envVars, fnVars, scanVars, mainPc, poolVars, userSet, userMu, userIDs,
                 downloadedMedia, mediaMu, fs, tickBuf, postEP, mediaEP>>

\* processUser, 2): os.ReadFile and json.Unmarshal of the profile file,
\* collectPostIDsFromProfile, os.MkdirAll of posts/<userID>. A read, decode or
\* mkdir failure, or an empty list, ends the job.
ProfileRead(w) ==
  /\ w \in Running
  /\ wk[w].pc = "h_read"
  /\ LET r == wk[w]
         raw == fs[ProfilePath(r.job)]
         profile == Decode(raw.data)
         postIDs == collectPostIDsFromProfile(profile)
     IN \/ /\ SetW(w, IF ~raw.exists \/ profile = NoDoc \/ postIDs = <<>>
                      THEN [r EXCEPT !.pc = "recv"]
                      ELSE [r EXCEPT !.pc = "h_gate", !.posts = postIDs, !.doc = NoDoc])
           /\ hist' = IF ~raw.exists \/ profile = NoDoc THEN hist
                      ELSE [hist EXCEPT !.listed[r.job] = postIDs]
        \/ /\ CanFail
           /\ SetW(w, [r EXCEPT !.pc = "recv"])
           /\ hist' = [hist EXCEPT !.ioErrs = @ + 1]
  /\ UNCHANGED <<run, envVars, fnVars, scanVars, mainPc, poolVars, userSet, userMu, userIDs,
                 downloadedMedia, mediaMu, fs, tickBuf, epVars>>

\* Whether processUser skips the post it has fetched: a file is at the
\* destination of its real id.
HarvestSkips(path) == fileExists(path)

\* The post of the next listed id is requested; an error skips the id; the
\* real id gives the destination, and an existing destination skips the id;
\* else the rewritten post goes to writeJSONFile.
PostFetch(w) ==
  /\ w \in Running
  /\ wk[w].pc = "h_http"
  /\ LET r == wk[w]
         pid == Head(r.posts)
     IN /\ \E resp \in PostAnswers(pid) :
             LET realID == ExtractRealID(resp, pid)
                 postFile == PostPath(r.job, realID)
             IN /\ postEP' = Remember(postEP, pid, resp)
                /\ SetW(w, IF resp = FetchErr THEN OnPostError(r)
                           ELSE IF HarvestSkips(postFile) THEN NextPost(r)
                           ELSE CallWrite([r EXCEPT !.doc = rewriteURLs(resp), !.realID = realID],
                                          postFile, Encode(rewriteURLs(resp)), "post"))
        /\ hist' = [hist EXCEPT !.requests = @ + 1,
                                !.req.harvest[r.job] = Bump(@, pid),
                                !.refetched = IF r.existed THEN @ \cup {<<r.job, pid>>} ELSE @]
  /\ UNCHANGED <<run, envVars, fnVars, scanVars, mainPc, poolVars, userSet, userMu, userIDs,
                 downloadedMedia, mediaMu, fs, tickBuf, profEP, mediaEP>>

\* ------------------------------------------------------------ downloadMedia
\* downloadedMedia.mu.Lock()
MediaLock(w) ==
  /\ w \in Running
  /\ wk[w].pc = "m_lock"
  /\ mediaMu = 0
  /\ mediaMu' = w
  /\ SetW(w, [wk[w] EXCEPT !.pc = "m_check"])
  /\ UNCHANGED <<run, envVars, fnVars, scanVars, mainPc, poolVars, userSet, userMu, userIDs,
                 downloadedMedia, fs, tickBuf, epVars, hist>>

\* A lookup that never finds the URL.
MediaSeenNever(m) == FALSE

\* The lookup of the URL in downloadedMedia, under its mutex.
MediaSeen(m) == m \in downloadedMedia

\* The URL is looked up in downloadedMedia and recorded; Unlock; a URL seen
\* before, an existing media file or a failed MkdirAll ends the download.
MediaCheck(w) ==
  /\ w \in Running
  /\ wk[w].pc = "m_check"
  /\ LET r == wk[w]
         m == Head(r.media)
     IN /\ downloadedMedia' = downloadedMedia \cup {m}
        /\ mediaMu' = 0
        /\ \/ /\ SetW(w, IF MediaSeen(m) \/ fileExists(MediaPath(m))
                         THEN NextMedia(r)
                         ELSE [r EXCEPT !.pc = "m_http"])
              /\ hist' = hist
           \/ /\ CanFail
              /\ ~MediaSeen(m)
              /\ ~fileExists(MediaPath(m))
              /\ SetW(w, NextMedia(r))
              /\ hist' = [hist EXCEPT !.ioErrs = @ + 1]
  /\ UNCHANGED <<run, envVars, fnVars, scanVars, mainPc, poolVars, userSet, userMu, userIDs,
                 fs, tickBuf, epVars>>

\* httpClient.Do for the media file (no receive from rateLimiter precedes
\* it); an error ends the download; else the body goes to the temporary file.
MediaFetch(w) ==
  /\ w \in Running
  /\ wk[w].pc = "m_http"
  /\ LET r == wk[w]
         m == Head(r.media)
     IN /\ \E resp \in MediaAnswers(m) :
             /\ mediaEP' = Remember(mediaEP, m, resp)
             /\ SetW(w, IF resp = "error" THEN NextMedia(r)
                        ELSE CallWrite(r, MediaPath(m), MediaBytes(m), "media"))
        /\ hist' = [hist EXCEPT !.mediaRequests = @ + 1,
                                !.req.media = Bump(@, m)]
  /\ UNCHANGED <<run, envVars, fnVars, scanVars, mainPc, poolVars, userSet, userMu, userIDs,
                 downloadedMedia, mediaMu, fs, tickBuf, postEP, profEP>>

\* ------------------------------------------------------- the slug scanner
\* The slugs the text object of a key holds.
ObjectSlugs(key) == {key}

\* make(chan job, *flagWorkers) of part_000 panics on a negative size;
\* vine-harvester makes its channel without a size.
MakeChanPanics == workers < 0 /\ ~(arg # <<>> /\ arg.prog = "vine-harvester")

\* runOnce of the scanner: listTxtObjects (an error ends runOnce), then the
\* channel is made and the workers are started.
ListTxtObjects ==
  /\ mainPc = "s_list"
  /\ \/ /\ ~MakeChanPanics
        /\ mainPc' = "s_send"
        /\ pending' \in Perms(corpus)
        /\ wg' = workerCount
        /\ wk' = Started
     \/ /\ MakeChanPanics
        /\ mainPc' = "panic_makechan"
        /\ UNCHANGED <<pending, wg, wk>>
     \/ /\ mainPc' = "s_failed"
        /\ UNCHANGED <<pending, wg, wk>>
  /\ jobs' = <<>>
  /\ closed' = FALSE
  /\ hist' = [hist EXCEPT !.handled = [j \in JobIds \cup Users |-> 0], !.sent = {}, !.read = {}]
  /\ UNCHANGED <<run, envVars, fnVars, scanVars, userSet, userMu, userIDs, downloadedMedia,
                 mediaMu, fs, tickBuf, epVars>>

\* processS3Object: an error of GetObject is logged and the worker takes the
\* next job; else the body is scanned line by line, to its end or up to an
\* error of the scanner (a read error, a line too long), which is logged as
\* well, after the lines before it have given their slugs.
ProcessS3Object(w) ==
  /\ w \in Running
  /\ wk[w].pc = "s_get"
  /\ \/ /\ SetW(w, [wk[w] EXCEPT !.pc = "recv"])
        /\ hist' = hist
     \/ /\ SetW(w, [wk[w] EXCEPT !.pc = "s_lock"])
        /\ hist' = [hist EXCEPT !.read = @ \cup {wk[w].job}]
     \/ /\ SetW(w, [wk[w] EXCEPT !.pc = "s_lock"])
        /\ hist' = hist
  /\ UNCHANGED <<run, envVars, fnVars, scanVars, mainPc, poolVars, userSet, userMu, userIDs,
                 downloadedMedia, mediaMu, fs, tickBuf, epVars>>

\* extractSlugsFromReader: mu.Lock()
SlugsLock(w) ==
  /\ w \in Running
  /\ wk[w].pc = "s_lock"
  /\ slugMu = 0
  /\ slugMu' = w
  /\ SetW(w, [wk[w] EXCEPT !.pc = "s_ins"])
  /\ UNCHANGED <<run, envVars, fnVars, slugs, slugFile, mainPc, poolVars, userSet, userMu,
                 userIDs, downloadedMedia, mediaMu, fs, tickBuf, epVars, hist>>

\* An insertion that replaces the set by the slugs of its own object: what
\* is lost when two insertions overlap.
SlugsInsertLost(w) ==
  /\ w \in Running
  /\ wk[w].pc = "s_ins"
  /\ slugs' = ObjectSlugs(wk[w].job)
  /\ slugMu' = 0
  /\ SetW(w, [wk[w] EXCEPT !.pc = "recv"])
  /\ UNCHANGED <<run, envVars, fnVars, slugFile, mainPc, poolVars, userSet, userMu,
                 userIDs, downloadedMedia, mediaMu, fs, tickBuf, epVars, hist>>

\* An insertion that returns without mu.Unlock().
SlugsInsertLocked(w) ==
  /\ w \in Running
  /\ wk[w].pc = "s_ins"
  /\ slugs' = slugs \cup ObjectSlugs(wk[w].job)
  /\ SetW(w, [wk[w] EXCEPT !.pc = "recv"])
  /\ UNCHANGED <<run, envVars, fnVars, slugMu, slugFile, mainPc, poolVars, userSet, userMu,
                 userIDs, downloadedMedia, mediaMu, fs, tickBuf, epVars, hist>>

\* extractSlugsFromReader: the matches go into slugs; mu.Unlock()
SlugsInsert(w) ==
  /\ w \in Running
  /\ wk[w].pc = "s_ins"
  /\ slugs' = slugs \cup ObjectSlugs(wk[w].job)
  /\ slugMu' = 0
  /\ SetW(w, [wk[w] EXCEPT !.pc = "recv"])
  /\ UNCHANGED <<run, envVars, fnVars, slugFile, mainPc, poolVars, userSet, userMu,
                 userIDs, downloadedMedia, mediaMu, fs, tickBuf, epVars, hist>>

\* wg.Wait() of runOnce returns.
ScanWait ==
  /\ mainPc = "s_wait"
  /\ WaitDone
  /\ mainPc' = "s_write"
  /\ UNCHANGED <<run, envVars, fnVars, scanVars, poolVars, wk, userSet, userMu, userIDs,
                 downloadedMedia, mediaMu, fs, tickBuf, epVars, hist>>

\* writeSlugs: the slugs, in the order the map gives them, one per line.
WriteSlugs ==
  /\ mainPc = "s_write"
  /\ slugFile' \in Perms(slugs)
  /\ mainPc' = "s_done"
  /\ UNCHANGED <<run, envVars, fnVars, slugs, slugMu, poolVars, wk, userSet, userMu, userIDs,
                 downloadedMedia, mediaMu, fs, tickBuf, epVars, hist>>

\* ------------------------------------------------------------ the text scan
\* Text is a sequence of characters (one-letter strings). The lines explored
\* are made of up to MaxPieces pieces: the URL prefix, a lower-case and an
\* upper-case letter, and a blank.
Prefix == <<"v", "i", "n", "e", ".", "c", "o", "/", "v", "/">>
AlNum == {"v", "i", "n", "e", "c", "o", "a", "A"}
Pieces == {Prefix, <<"a">>, <<"A">>, <<" ">>}

RECURSIVE Flatten(_)
Flatten(ps) == IF ps = <<>> THEN <<>> ELSE Head(ps) \o Flatten(Tail(ps))

Lines == {Flatten(ps) : ps \in SeqsUpTo(Pieces, MaxPieces)}

\* The largest line bufio.Scanner delivers is one character shorter than its
\* buffer: 64 KiB by default (collectVineSlugs), maxCapacity = 1 MiB in the
\* slug scanner. Both are scaled here to the lines explored.
MaxScanTokenSize == 24
maxCapacity == 31

\* vineURLRe matches at position i of s: the prefix, then a letter or digit.
MatchAt(s, i) ==
  /\ i + Len(Prefix) <= Len(s)
  /\ SubSeq(s, i, i + Len(Prefix) - 1) = Prefix
  /\ s[i + Len(Prefix)] \in AlNum

\* The last position of the run of letters and digits that starts at j.
RECURSIVE RunEnd(_, _)
RunEnd(s, j) == IF j < Len(s) /\ s[j + 1] \in AlNum THEN RunEnd(s, j + 1) ELSE j

\* vineURLRe.FindAllStringSubmatch(line, -1): the captured group of the
\* successive non-overlapping matches at or after position i, leftmost first,
\* each as long as it can be.
RECURSIVE FindAll(_, _)
FindAll(s, i) ==
  IF i > Len(s) THEN {}
  ELSE IF MatchAt(s, i)
       THEN LET e == RunEnd(s, i + Len(Prefix))
            IN {SubSeq(s, i + Len(Prefix), e)} \cup FindAll(s, e + 1)
       ELSE FindAll(s, i + 1)

\* The lines scanner.Scan() delivers from a file: those before the first line
\* that does not fit the buffer (Scan then returns false for good).
RECURSIVE Delivered(_, _)
Delivered(lines, cap) ==
  IF lines = <<>> \/ Len(Head(lines)) >= cap THEN <<>>
  ELSE <<Head(lines)>> \o Delivered(Tail(lines), cap)

SlugsOfLines(lines) == UNION {FindAll(lines[i], 1) : i \in 1..Len(lines)}

\* A source of the corpus: whether it can be listed and opened, and its lines.
SourceStates == {"ok", "walkerr", "openerr"}

\* collectVineSlugs of the harvester: filepath.Walk over the sources; an
\* entry that cannot be listed or opened is skipped; every match of every
\* delivered line goes into slugSet.
collectVineSlugs(srcs) ==
  [err |-> FALSE,
   slugs |-> UNION {IF srcs[i].status = "ok"
                    THEN SlugsOfLines(Delivered(srcs[i].lines, MaxScanTokenSize))
                    ELSE {} : i \in 1..Len(srcs)}]

\* The local branch of the slug scanner's runOnce: listLocalTxtFiles (its
\* walk function returns the error of an entry, which ends the walk and
\* runOnce), then processLocalFile for each file (a file that cannot be opened
\* or scanned to its end is logged and the loop goes on).
scanLocal(srcs) ==
  IF \E i \in 1..Len(srcs) : srcs[i].status = "walkerr"
  THEN [err |-> TRUE, slugs |-> {}]
  ELSE [err |-> FALSE,
        slugs |-> UNION {IF srcs[i].status = "ok"
                         THEN SlugsOfLines(Delivered(srcs[i].lines, maxCapacity))
                         ELSE {} : i \in 1..Len(srcs)}]

\* The calls.
CollectVineSlugs ==
  /\ mainPc = "call_collect"
  /\ res' = collectVineSlugs(arg)
  /\ mainPc' = "ret_collect"
  /\ UNCHANGED <<run, envVars, arg, scanVars, poolVars, wk, userSet, userMu, userIDs,
                 downloadedMedia, mediaMu, fs, tickBuf, epVars, hist>>

ScanLocal ==
  /\ mainPc = "call_local"
  /\ res' = scanLocal(arg)
  /\ mainPc' = "ret_local"
  /\ UNCHANGED <<run, envVars, arg, scanVars, poolVars, wk, userSet, userMu, userIDs,
                 downloadedMedia, mediaMu, fs, tickBuf, epVars, hist>>

\* ------------------------------------------------- the rewriter, in detail
\* A string leaf is a sequence of fragments of text. No fragment but "http"
\* holds an h, none but ".cdn.vine.co" holds ".cdn", and "v" and "mtc" are the
\* only ones a legacy host can start with, so that a legacy scheme-and-host
\* occurs in the text exactly where its fragments occur in the sequence.
LegacyHosts ==
  {<<"http", "://", "v", ".cdn.vine.co">>, <<"http", "s", "://", "v", ".cdn.vine.co">>,
   <<"http", "://", "mtc", ".cdn.vine.co">>, <<"http", "s", "://", "mtc", ".cdn.vine.co">>}
MirrorHost == <<"http", "s", "://", "vines.s3.amazonaws.com">>

\* A matcher that looks at the first fragment only.
HasPrefixLoose(s, old) == s # <<>> /\ Head(s) = Head(old)

\* strings.HasPrefix(s, old).
HasPrefix(s, old) == Len(s) >= Len(old) /\ SubSeq(s, 1, Len(old)) = old

\* strings.Contains(s, sub).
Contains(s, sub) == \E i \in 1..(Len(s) - Len(sub) + 1) : SubSeq(s, i, i + Len(sub) - 1) = sub

\* strings.Replace(s, old, new, 1): the leftmost occurrence only.
ReplaceFirst(s, old, new) ==
  IF Contains(s, old)
  THEN LET i == CHOOSE j \in 1..Len(s) :
                  /\ SubSeq(s, j, j + Len(old) - 1) = old
                  /\ \A k \in 1..(j - 1) : SubSeq(s, k, k + Len(old) - 1) # old
       IN SubSeq(s, 1, i - 1) \o new \o SubSeq(s, i + Len(old), Len(s))
  ELSE s

\* strings.ReplaceAll(s, old, new): every non-overlapping occurrence, from the
\* left.
RECURSIVE ReplaceAll(_, _, _)
ReplaceAll(s, old, new) ==
  IF s = <<>> THEN <<>>
  ELSE IF HasPrefix(s, old)
       THEN new \o ReplaceAll(SubSeq(s, Len(old) + 1, Len(s)), old, new)
       ELSE <<Head(s)>> \o ReplaceAll(Tail(s), old, new)

\* The string case of rewriteURLs: behind the guard, the four replacements in
\* the order of the code.
rewriteString(s) ==
  IF Contains(s, <<".cdn.vine.co">>)
  THEN LET s1 == ReplaceAll(s, <<"http", "://", "v", ".cdn.vine.co">>, MirrorHost)
           s2 == ReplaceAll(s1, <<"http", "s", "://", "v", ".cdn.vine.co">>, MirrorHost)
           s3 == ReplaceAll(s2, <<"http", "://", "mtc", ".cdn.vine.co">>, MirrorHost)
       IN ReplaceAll(s3, <<"http", "s", "://", "mtc", ".cdn.vine.co">>, MirrorHost)
  ELSE s

\* A decoded JSON value: [t |-> type, v |-> content]. A string holds its
\* text, an array the sequence of its elements, a map the function from its
\* keys to their values.
JStr(s) == [t |-> "string", v |-> s]
JNum(n) == [t |-> "number", v |-> n]
JBool(b) == [t |-> "bool", v |-> b]
JNull == [t |-> "null", v |-> 0]
JArr(a) == [t |-> "array", v |-> a]
JMap(m) == [t |-> "map", v |-> m]

\* rewriteURLs on a decoded JSON value: maps and arrays are rewritten element
\* by element, a string by rewriteString, anything else is returned as it is.
RECURSIVE rewriteURLsJSON(_)
rewriteURLsJSON(x) ==
  CASE x.t = "map" -> JMap([k \in DOMAIN x.v |-> rewriteURLsJSON(x.v[k])])
    [] x.t = "array" -> JArr([i \in 1..Len(x.v) |-> rewriteURLsJSON(x.v[i])])
    [] x.t = "string" -> JStr(rewriteString(x.v))
    [] OTHER -> x

\* The calls: rewriteURLs(T), and rewriteURLs of its result.
RewriteURLs ==
  /\ mainPc = "call_rewrite"
  /\ res' = rewriteURLsJSON(arg)
  /\ mainPc' = "ret_rewrite"
  /\ UNCHANGED <<run, envVars, arg, scanVars, poolVars, wk, userSet, userMu, userIDs,
                 downloadedMedia, mediaMu, fs, tickBuf, epVars, hist>>

RewriteURLsAgain ==
  /\ mainPc = "ret_rewrite"
  /\ res' = [once |-> res, twice |-> rewriteURLsJSON(res)]
  /\ mainPc' = "ret_rewrite2"
  /\ UNCHANGED <<run, envVars, arg, scanVars, poolVars, wk, userSet, userMu, userIDs,
                 downloadedMedia, mediaMu, fs, tickBuf, epVars, hist>>

\* ------------------------------------------------ the real id, in detail
\* json.Decoder.Decode into map[string]interface{} turns every JSON number
\* into a float64: the nearest value with a significand of SignificandBits
\* bits, ties to even (53 bits in the code, scaled here to the numbers explored).
SignificandBits == 3

RECURSIVE Pow2(_)
Pow2(n) == IF n = 0 THEN 1 ELSE 2 * Pow2(n - 1)

\* The number of bits of n.
RECURSIVE BitLen(_)
BitLen(n) == IF n = 0 THEN 0 ELSE 1 + BitLen(n \div 2)

ToFloat64(n) ==
  IF BitLen(n) <= SignificandBits THEN n
  ELSE LET ulp == Pow2(BitLen(n) - SignificandBits)
           q == n \div ulp
           r == n % ulp
       IN IF 2 * r < ulp \/ (2 * r = ulp /\ q % 2 = 0) THEN q * ulp ELSE (q + 1) * ulp

\* The decoded document: number fields as float64, anything else as served.
DecodeField(f) == IF f.t = "number" THEN JNum(ToFloat64(f.v)) ELSE f
DecodePost(body) == [k \in DOMAIN body |-> DecodeField(body[k])]

\* fmt.Sprintf("%.0f", f) of a float64 without a fraction: its decimal digits.
RECURSIVE Sprintf0f(_)
Sprintf0f(f) ==
  LET d == <<"0", "1", "2", "3", "4", "5", "6", "7", "8", "9">>[(f % 10) + 1]
  IN IF f < 10 THEN <<d>> ELSE Sprintf0f(f \div 10) \o <<d>>

\* A field that is not in the document.
NoField == [t |-> "absent", v |-> 0]

\* "Extract real post ID" of fetchUsersFromSlugs and of processUser:
\* postIdStr when it is a non-empty string, else postId when it is a float64,
\* formatted with %.0f, else the identifier requested.
realID(postData, requested) ==
  IF postData.postIdStr.t = "string" /\ postData.postIdStr.v # <<>>
  THEN postData.postIdStr.v
  ELSE IF postData.postId.t = "number" THEN Sprintf0f(postData.postId.v)
       ELSE requested

\* The calls: arg is <<body served, identifier requested>>.
ResolveRealID ==
  /\ mainPc = "call_realid_resolve"
  /\ res' = realID(DecodePost(arg[1]), arg[2])
  /\ mainPc' = "ret_realid_resolve"
  /\ UNCHANGED <<run, envVars, arg, scanVars, poolVars, wk, userSet, userMu, userIDs,
                 downloadedMedia, mediaMu, fs, tickBuf, epVars, hist>>

HarvestRealID ==
  /\ mainPc = "call_realid_harvest"
  /\ res' = realID(DecodePost(arg[1]), arg[2])
  /\ mainPc' = "ret_realid_harvest"
  /\ UNCHANGED <<run, envVars, arg, scanVars, poolVars, wk, userSet, userMu, userIDs,
                 downloadedMedia, mediaMu, fs, tickBuf, epVars, hist>>

\* The decimal digits of a natural number.
RECURSIVE Decimal(_)
Decimal(n) ==
  LET d == <<"0", "1", "2", "3", "4", "5", "6", "7", "8", "9">>[(n % 10) + 1]
  IN IF n < 10 THEN <<d>> ELSE Decimal(n \div 10) \o <<d>>

\* ------------------------------------------- the identifiers, in detail
\* "Extract userId" of fetchUsersFromSlugs: userIdStr when it is a non-empty
\* string, else userId when it is a float64, formatted with %.0f, else "".
userID(postData) ==
  IF postData.userIdStr.t = "string" /\ postData.userIdStr.v # <<>>
  THEN postData.userIdStr.v
  ELSE IF postData.userId.t = "number" THEN Sprintf0f(postData.userId.v)
       ELSE <<>>

\* json.Unmarshal of a whole document: every number becomes a float64.
RECURSIVE DecodeJSON(_)
DecodeJSON(x) ==
  CASE x.t = "map" -> JMap([k \in DOMAIN x.v |-> DecodeJSON(x.v[k])])
    [] x.t = "array" -> JArr([i \in 1..Len(x.v) |-> DecodeJSON(x.v[i])])
    [] x.t = "number" -> JNum(ToFloat64(x.v))
    [] OTHER -> x

\* strings.TrimSpace.
RECURSIVE TrimLeft(_)
TrimLeft(s) == IF s # <<>> /\ Head(s) = " " THEN TrimLeft(Tail(s)) ELSE s
RECURSIVE TrimRight(_)
TrimRight(s) ==
  IF s # <<>> /\ s[Len(s)] = " " THEN TrimRight(SubSeq(s, 1, Len(s) - 1)) ELSE s
TrimSpace(s) == TrimRight(TrimLeft(s))

\* m[k] of a Go map: the value, or the zero value when k is not a key.
Field(m, k) == IF k \in DOMAIN m THEN m[k] ELSE NoField

\* addID of collectPostIDsFromProfile: the trimmed id is appended unless it is
\* empty or seen already.
addID(out, id) ==
  LET t == TrimSpace(id)
  IN IF t = <<>> \/ (\E i \in 1..Len(out) : out[i] = t) THEN out ELSE Append(out, t)

\* The id an item of the "posts" list stands for (<<>>: none): a string, a
\* float64, or an object with postIdStr or postId.
ItemID(item) ==
  CASE item.t = "string" -> item.v
    [] item.t = "number" -> Sprintf0f(item.v)
    [] item.t = "map" ->
         IF Field(item.v, "postIdStr").t = "string" /\ Field(item.v, "postIdStr").v # <<>>
         THEN Field(item.v, "postIdStr").v
         ELSE IF Field(item.v, "postId").t = "number"
              THEN Sprintf0f(Field(item.v, "postId").v)
              ELSE <<>>
    [] OTHER -> <<>>

RECURSIVE FromList(_, _)
FromList(items, out) ==
  IF items = <<>> THEN out ELSE FromList(Tail(items), addID(out, ItemID(Head(items))))

\* strings.ToLower(k) is "postid" or "postidstr".
IsIdKey(k) == k \in {"postId", "postIdStr", "PostID"}

\* The deep scan: walk(v). A map is ranged over in the order ord gives its
\* keys (the order of a Go map range is not fixed), an array from its first
\* element.
RECURSIVE Walk(_, _, _)
RECURSIVE WalkKeys(_, _, _, _)
RECURSIVE WalkElems(_, _, _)
Walk(x, out, ord) ==
  CASE x.t = "map" -> WalkKeys(x.v, SelectSeq(ord, LAMBDA k : k \in DOMAIN x.v), out, ord)
    [] x.t = "array" -> WalkElems(x.v, out, ord)
    [] OTHER -> out
WalkKeys(m, ks, out, ord) ==
  IF ks = <<>> THEN out
  ELSE LET vv == m[Head(ks)]
           found == IF ~IsIdKey(Head(ks)) THEN out
                    ELSE CASE vv.t = "string" -> addID(out, vv.v)
                           [] vv.t = "number" -> addID(out, Sprintf0f(vv.v))
                           [] OTHER -> out
       IN WalkKeys(m, Tail(ks), Walk(vv, found, ord), ord)
WalkElems(a, out, ord) ==
  IF a = <<>> THEN out ELSE WalkElems(Tail(a), Walk(Head(a), out, ord), ord)

\* Whether collectPostIDsFromProfile goes on to the deep scan.
DeepScans(out) == Len(out) = 0

\* collectPostIDsFromProfile on a decoded profile.
collectPostIDsJSON(profile, ord) ==
  LET rawPosts == Field(profile.v, "posts")
      out == IF rawPosts.t = "array" THEN FromList(rawPosts.v, <<>>) ELSE <<>>
  IN IF DeepScans(out) THEN Walk(profile, <<>>, ord) ELSE out

\* The keys of the profiles explored.
ProfileKeys == {"posts", "postId", "postIdStr", "latest"}

\* collectPostIDsFromProfile(profile) on the profile read back from its file,
\* under one of the orders a map range can take.
CollectPostIDs ==
  /\ mainPc = "call_collectids"
  /\ \E ord \in Perms(ProfileKeys) : res' = collectPostIDsJSON(DecodeJSON(arg), ord)
  /\ mainPc' = "ret_collectids"
  /\ UNCHANGED <<run, envVars, arg, scanVars, poolVars, wk, userSet, userMu, userIDs,
                 downloadedMedia, mediaMu, fs, tickBuf, epVars, hist>>

\* The calls. An identifier n served as a string field and as a number field:
\* arg is <<n, form>>, res the two identifiers extracted.
NormalizeUserID ==
  /\ mainPc = "call_userid"
  /\ res' = [str |-> userID([userIdStr |-> JStr(Decimal(arg[1])), userId |-> NoField]),
             num |-> userID(DecodePost([userIdStr |-> NoField, userId |-> JNum(arg[1])]))]
  /\ mainPc' = "ret_userid"
  /\ UNCHANGED <<run, envVars, arg, scanVars, poolVars, wk, userSet, userMu, userIDs,
                 downloadedMedia, mediaMu, fs, tickBuf, epVars, hist>>

NormalizeRealID ==
  /\ mainPc = "call_postid"
  /\ res' = [str |-> realID([postIdStr |-> JStr(Decimal(arg[1])), postId |-> NoField], <<"a">>),
             num |-> realID(DecodePost([postIdStr |-> NoField, postId |-> JNum(arg[1])]), <<"a">>)]
  /\ mainPc' = "ret_postid"
  /\ UNCHANGED <<run, envVars, arg, scanVars, poolVars, wk, userSet, userMu, userIDs,
                 downloadedMedia, mediaMu, fs, tickBuf, epVars, hist>>

\* The profile that lists n in the form given: as an item of "posts", as an
\* object of "posts", or outside "posts".
ProfileListing(form, strv, numv) ==
  CASE form = "item" -> JMap([k \in {"posts"} |-> JArr(<<IF strv # NoField THEN strv ELSE numv>>)])
    [] form = "object" ->
         JMap([k \in {"posts"} |->
                 JArr(<<JMap(IF strv # NoField THEN [j \in {"postIdStr"} |-> strv]
                                               ELSE [j \in {"postId"} |-> numv])>>)])
    [] form = "scan" ->
         JMap([k \in {"latest"} |->
                 JMap(IF strv # NoField THEN [j \in {"postIdStr"} |-> strv]
                                        ELSE [j \in {"postId"} |-> numv])])

NormalizeListEntry ==
  /\ mainPc = "call_listentry"
  /\ res' = [str |-> collectPostIDsJSON(
                       DecodeJSON(ProfileListing(arg[2], JStr(Decimal(arg[1])), NoField)),
                       <<"posts", "postId", "postIdStr", "latest">>),
             num |-> collectPostIDsJSON(
                       DecodeJSON(ProfileListing(arg[2], NoField, JNum(arg[1]))),
                       <<"posts", "postId", "postIdStr", "latest">>)]
  /\ mainPc' = "ret_listentry"
  /\ UNCHANGED <<run, envVars, arg, scanVars, poolVars, wk, userSet, userMu, userIDs,
                 downloadedMedia, mediaMu, fs, tickBuf, epVars, hist>>

\* ------------------------------------------------- the fetch, in detail
\* What the server does with a request: no response at all, or a status and a
\* body (a JSON object, null, a JSON array, text that is not JSON, nothing).
Statuses == {200, 403, 404, 500}
Bodies == {"object", "null", "array", "garbage", "empty"}
Responses ==
  {[transport |-> "fail", status |-> 0, body |-> "empty"]}
    \cup {[transport |-> "ok", status |-> c, body |-> b] : c \in Statuses, b \in Bodies}

\* A Go error value: its dynamic type, the format of its message, and the
\* status code the message is built with (0: none).
GoErr(ty, fmt, code) == [type |-> ty, format |-> fmt, code |-> code]
NoErr == GoErr("nil", "", 0)

\* dec.Decode(&m) with m a map[string]interface{}.
DecodeBody(b) ==
  CASE b = "object" -> [val |-> "map", err |-> NoErr]
    [] b = "null" -> [val |-> "nil map", err |-> NoErr]
    [] b = "array" -> [val |-> "nil", err |-> GoErr("*json.UnmarshalTypeError", "json: cannot unmarshal", 0)]
    [] b = "garbage" -> [val |-> "nil", err |-> GoErr("*json.SyntaxError", "invalid character", 0)]
    [] b = "empty" -> [val |-> "nil", err |-> GoErr("*errors.errorString", "EOF", 0)]

\* fetchJSONMap after the rate gate: the error of httpClient.Do as it is, an
\* error made by fmt.Errorf for a status other than 200 (with a message of
\* its own for 403), else the outcome of the decoding.
fetchJSONMap(resp) ==
  IF resp.transport = "fail"
  THEN [val |-> "nil", err |-> GoErr("*url.Error", "Get %q: %s", 0)]
  ELSE IF resp.status # 200
       THEN IF resp.status = 403
            THEN [val |-> "nil",
                  err |-> GoErr("*errors.errorString", "HTTP 403 Forbidden for %s", 0)]
            ELSE [val |-> "nil",
                  err |-> GoErr("*errors.errorString", "HTTP %d for %s", resp.status)]
       ELSE DecodeBody(resp.body)

\* The call: arg is a pair of responses, res the outcome of the fetch of each.
FetchJSONMap ==
  /\ mainPc = "call_fetch"
  /\ res' = <<fetchJSONMap(arg[1]), fetchJSONMap(arg[2])>>
  /\ mainPc' = "ret_fetch"
  /\ UNCHANGED <<run, envVars, arg, scanVars, poolVars, wk, userSet, userMu, userIDs,
                 downloadedMedia, mediaMu, fs, tickBuf, epVars, hist>>

\* ---------------------------------------------------- the scanners' main loop
\* The two slug scanners: src/unnamed/part_000 and
\* src/vine-harvester/vine_full_harvest.go. Each main calls runOnce (a
\* listing, a pool over the keys, the write of the slugs) and decides on its
\* result and on the -loopEvery flag; arg holds the program and the flag.
Programs == {"part_000", "vine-harvester"}
LoopFlags == {-1, 0, 1}

\* A main that goes to sleep whatever runOnce returned and whatever the flag.
AfterRunOnceSleeps(prog, every, failed) == "sleep"

\* Where main goes when runOnce has returned. part_000: with
\* *flagLoopEvery <= 0 a single call, fatal on an error, then return;
\* otherwise an error is logged and main sleeps. vine-harvester: an error is
\* fatal in every mode; without one, return when *loopEvery == 0, else sleep.
AfterRunOnce(prog, every, failed) ==
  IF prog = "part_000"
  THEN IF every <= 0
       THEN IF failed THEN "fatal_runonce" ELSE "exit"
       ELSE "sleep"
  ELSE IF failed THEN "fatal_runonce"
       ELSE IF every = 0 THEN "exit" ELSE "sleep"

\* runOnce has returned to main.
RunOnceReturns ==
  /\ mainPc \in {"s_done", "s_failed"}
  /\ arg # <<>>
  /\ mainPc' = AfterRunOnce(arg.prog, arg.loopEvery, mainPc = "s_failed")
  /\ UNCHANGED <<run, envVars, scanVars, poolVars, wk, userSet, userMu, userIDs, downloadedMedia,
                 mediaMu, fs, tickBuf, epVars, arg, res, hist>>

\* time.Sleep(*loopEvery) returns (at once when the duration is negative) and
\* runOnce is called again, with a new map and a new mutex; res counts the
\* calls after the first, up to MaxRuns.
Wake ==
  /\ mainPc = "sleep"
  /\ mainPc' = "s_list"
  /\ slugs' = {}
  /\ slugMu' = 0
  /\ res' = IF res < MaxRuns THEN res + 1 ELSE res
  /\ UNCHANGED <<run, envVars, slugFile, poolVars, wk, userSet, userMu, userIDs, downloadedMedia,
                 mediaMu, fs, tickBuf, epVars, arg, hist>>

\* ------------------------------------------------ the listing, in detail
\* A key of the object store is a name and an extension; a listing is a
\* sequence of pages, each a sequence of keys. ListObjectsV2 answers the
\* request without a token with the first page, and a request with the token
\* of a page with that page; a page other than the last is truncated and
\* carries the token of the next one (0: no token).
Extensions == {".txt", ".TXT", ".json"}
ObjectKeys == [name : {"a"}, ext : Extensions]
ToLower(ext) == IF ext = ".TXT" THEN ".txt" ELSE ext

ListObjectsV2(pages, token) ==
  LET t == IF token = 0 THEN 1 ELSE token
  IN [Contents |-> pages[t],
      IsTruncated |-> t < Len(pages),
      NextContinuationToken |-> IF t < Len(pages) THEN t + 1 ELSE 0]

\* The test of the listing loop on a key: strings.HasSuffix(
\* strings.ToLower(*obj.Key), ".txt") in part_000, strings.HasSuffix(*obj.Key,
\* ".txt") in vine-harvester.
KeepsKey(prog, key) ==
  IF prog = "part_000" THEN ToLower(key.ext) = ".txt" ELSE key.ext = ".txt"

\* A loop that ends after its first page.
AnotherPageNever(out) == FALSE

\* out.IsTruncated && out.NextContinuationToken != nil
AnotherPage(out) == out.IsTruncated /\ out.NextContinuationToken # 0

\* The loop of listTxtObjects / listS3TextObjects from the request with the
\* given token on: an error of the request (the failAt-th page) ends the
\* listing with the error and without keys.
RECURSIVE ListFrom(_, _, _, _, _)
ListFrom(prog, pages, failAt, token, keys) ==
  IF (IF token = 0 THEN 1 ELSE token) = failAt
  THEN [err |-> TRUE, keys |-> <<>>]
  ELSE LET out == ListObjectsV2(pages, token)
           more == keys \o SelectSeq(out.Contents, LAMBDA k : KeepsKey(prog, k))
       IN IF AnotherPage(out)
          THEN ListFrom(prog, pages, failAt, out.NextContinuationToken, more)
          ELSE [err |-> FALSE, keys |-> more]

listTxtObjects(pages, failAt) == ListFrom("part_000", pages, failAt, 0, <<>>)
listS3TextObjects(pages, failAt) == ListFrom("vine-harvester", pages, failAt, 0, <<>>)

\* A call of the listing of one of the scanners.
ListObjects ==
  /\ mainPc = "call_list"
  /\ mainPc' = "ret_list"
  /\ res' = IF arg.prog = "part_000"
            THEN listTxtObjects(arg.pages, arg.failAt)
            ELSE listS3TextObjects(arg.pages, arg.failAt)
  /\ UNCHANGED <<run, envVars, scanVars, poolVars, wk, userSet, userMu, userIDs, downloadedMedia,
                 mediaMu, fs, tickBuf, epVars, arg, hist>>

\* ------------------------------------------------------ the storage client
\* arg holds the program, whether -inputDir and -outDir start with "s3://",
\* whether AWS_ACCESS_KEY_ID, AWS_SECRET_ACCESS_KEY and S3_ENDPOINT are all
\* set, and whether config.LoadDefaultConfig succeeds; res holds whether a
\* client has been returned and the depth of the calls of newS3Client.
UsesS3 == arg.inS3 \/ arg.outS3

\* Where the scan starts: the listing of the bucket, or the walk of the
\* local directory.
ScanStart == IF arg.inS3 THEN "s_list" ELSE "s_local"

\* The scanner is started: inPath.S3 || outPath.S3 (part_000, in runOnce),
\* srcKind == srcS3 || strings.HasPrefix(*outDir, "s3://") (vine-harvester,
\* in main) decide on the call of newS3Client.
StartScanner ==
  /\ mainPc = "start"
  /\ mainPc' = IF UsesS3 THEN "new_client" ELSE ScanStart
  /\ UNCHANGED <<run, envVars, scanVars, poolVars, wk, userSet, userMu, userIDs, downloadedMedia,
                 mediaMu, fs, tickBuf, epVars, arg, res, hist>>

\* A newS3Client that ends with s3.NewFromConfig(cfg) in both programs.
ReturnsClientAlways(prog) == TRUE

\* The last statement of newS3Client: return s3.NewFromConfig(cfg) in
\* part_000; s3Client := newS3Client() in vine-harvester, a call of itself.
ReturnsClient(prog) == prog = "part_000"

\* newS3Client: log.Fatalf when one of the three settings is empty or the
\* configuration cannot be loaded; then its last statement. The nested call
\* of vine-harvester does the same again, until the stack is exhausted and
\* the runtime ends the process.
NewS3Client ==
  /\ mainPc = "new_client"
  /\ IF ~arg.env THEN mainPc' = "fatal_env" /\ res' = res
     ELSE IF ~arg.cfgOk THEN mainPc' = "fatal_config" /\ res' = res
     ELSE IF ReturnsClient(arg.prog)
          THEN mainPc' = ScanStart /\ res' = [res EXCEPT !.client = TRUE]
          ELSE IF res.depth < MaxStack
               THEN mainPc' = "new_client" /\ res' = [res EXCEPT !.depth = @ + 1]
               ELSE mainPc' = "fatal_stack" /\ res' = res
  /\ UNCHANGED <<run, envVars, scanVars, poolVars, wk, userSet, userMu, userIDs, downloadedMedia,
                 mediaMu, fs, tickBuf, epVars, arg, hist>>

\* The local branch of runOnce: the walk fails, or every file that can be
\* read gives its slugs.
ScanLocalFiles ==
  /\ mainPc = "s_local"
  /\ \/ mainPc' = "s_failed" /\ slugs' = slugs
     \/ /\ mainPc' = "s_write"
        /\ \E read \in SUBSET corpus : slugs' = UNION {ObjectSlugs(k) : k \in read}
  /\ UNCHANGED <<run, envVars, slugMu, slugFile, poolVars, wk, userSet, userMu, userIDs,
                 downloadedMedia, mediaMu, fs, tickBuf, epVars, arg, res, hist>>

\* ------------------------------------------------ the file names, in detail
\* A path is the sequence of its elements; an id or a URL path taken from a
\* remote document is any string, here up to MaxSegs elements separated by
\* "/", each a name or ".."; an element is a base and the suffix appended to it.
Elem(s) == [base |-> s, ext |-> ""]
DotDot == Elem("..")
Segments == {Elem("7"), Elem("x"), DotDot}
RemoteNames == SeqsUpTo(Segments, MaxSegs) \ {<<>>}

\* -out, and the three directories main derives from it.
outDir == <<Elem("out")>>
profilesDir == outDir \o <<Elem("profiles")>>
postsRoot == outDir \o <<Elem("posts")>>
mediaRoot == outDir \o <<Elem("media")>>

\* filepath.Clean of a relative path: ".." removes the element before it,
\* and stays when there is none (or another ".." only).
RECURSIVE Clean(_, _)
Clean(done, rest) ==
  IF rest = <<>> THEN done
  ELSE IF Head(rest) = DotDot
       THEN IF done # <<>> /\ done[Len(done)] # DotDot
            THEN Clean(SubSeq(done, 1, Len(done) - 1), Tail(rest))
            ELSE Clean(Append(done, DotDot), Tail(rest))
       ELSE Clean(Append(done, Head(rest)), Tail(rest))

\* filepath.Join(dir, name): the elements joined, then cleaned. A Join that
\* keeps the elements as they are.
JoinKept(dir, name) == dir \o name

JoinPath(dir, name) == Clean(<<>>, dir \o name)

\* name + ".json": the suffix goes onto the last element, which is then a
\* file name whatever it was ("..", too).
WithSuffix(name, ext) ==
  SubSeq(name, 1, Len(name) - 1) \o <<[name[Len(name)] EXCEPT !.ext = ext]>>

\* The files the harvester creates for a post of a user and for a media URL:
\* userPostsDir and postFile of fetchUsersFromSlugs and processUser,
\* profilePath of processUser, localPath of downloadMedia.
postFileOf(uid, pid) == JoinPath(JoinPath(postsRoot, uid), WithSuffix(pid, ".json"))
profilePathOf(uid) == JoinPath(profilesDir, WithSuffix(uid, ".json"))
localPathOf(urlPath) == JoinPath(mediaRoot, urlPath)

FileNames ==
  /\ mainPc = "call_paths"
  /\ mainPc' = "ret_paths"
  /\ res' = [post |-> postFileOf(arg.userID, arg.realID),
             profile |-> profilePathOf(arg.userID),
             media |-> localPathOf(arg.urlPath)]
  /\ UNCHANGED <<run, envVars, scanVars, poolVars, wk, userSet, userMu, userIDs, downloadedMedia,
                 mediaMu, fs, tickBuf, epVars, arg, hist>>

\* ---------------------------------------------------------- specifications
\* The answers explored where the whole pipeline runs: a post without an id
\* of its own for each user, user 1's post with the id 1, and a failed fetch;
\* a profile listing one post or two, and a failed fetch.
ExploredPosts ==
  {d \in PostDocs : (d.userIdStr # 0) /\ (d.postIdStr \in {0, 1})
                       /\ (d.postIdStr = 1 => d.userIdStr = 1)} \cup {FetchErr}
ExploredProfiles ==
  {d \in ProfileDocs : d.posts \in {<<1>>, <<1, 2>>}} \cup {FetchErr}
\* Narrower: a profile listing two posts, and a failed fetch.
TwoPostProfiles == {d \in ExploredProfiles : d = FetchErr \/ Len(d.posts) = 2}

PoolStep(w) == Take(w) \/ Exit(w)
ResolveStep(w) ==
  \/ Gate(w) \/ ResolveFetch(w) \/ ResolveLock(w) \/ ResolveInsert(w) \/ ResolveCheck(w)
  \/ WriteCreate(w) \/ WriteData(w) \/ WriteRename(w)
HarvestStep(w) == HarvestStart(w) \/ ProfileFetch(w) \/ ProfileRead(w) \/ PostFetch(w)
MediaStep(w) == MediaLock(w) \/ MediaCheck(w) \/ MediaFetch(w)
ScanStep(w) == ProcessS3Object(w) \/ SlugsLock(w) \/ SlugsInsert(w)

\* One execution of the harvester.
NextOnce ==
  \/ Scan \/ Send \/ Close \/ ResolveWait \/ WriteIndex \/ HarvestWait \/ Tick
  \/ \E w \in WorkerIds : PoolStep(w) \/ ResolveStep(w) \/ HarvestStep(w)

\* One execution of the harvester or of the slug scanner: every worker pool.
Init ==
  InitWith(1..MaxWorkers, {FALSE}, {FALSE}, SUBSET Ids, ExploredPosts, ExploredProfiles,
           {"scan", "s_list"})
Next ==
  \/ NextOnce
  \/ ListTxtObjects \/ ScanWait \/ WriteSlugs
  \/ \E w \in WorkerIds : ScanStep(w)
Spec == Init /\ [][Next]_vars

\* The resolve stage alone, for every answer of the post endpoint.
InitResolve ==
  InitWith(1..MaxWorkers, {FALSE}, {FALSE}, SUBSET Ids, PostDocs \cup {FetchErr},
           {FetchErr}, {"scan"})
NextResolve ==
  \/ Scan \/ Send \/ Close \/ ResolveWait \/ Tick
  \/ \E w \in WorkerIds : PoolStep(w) \/ ResolveStep(w)
SpecResolve == InitResolve /\ [][NextResolve]_vars

\* One execution under an observer of the request log.
InitWindow ==
  InitWith({MaxWorkers}, {FALSE}, {FALSE}, {Ids}, ExploredPosts, TwoPostProfiles, {"scan"})
NextWindow == NextOnce \/ Mark
SpecWindow == InitWindow /\ [][NextWindow]_vars

\* The harvester executed MaxRuns times on the same directories.
InitTwice ==
  InitWith(1..MaxWorkers, {FALSE}, {FALSE}, {Ids}, ExploredPosts, ExploredProfiles, {"scan"})
NextTwice == NextOnce \/ NextRun
SpecTwice == InitTwice /\ [][NextTwice]_vars

\* One execution with -download.
InitMedia ==
  InitWith({MaxWorkers}, {TRUE}, {FALSE}, {Ids}, ExploredPosts, ExploredProfiles, {"scan"})
NextMediaRun == NextOnce \/ \E w \in WorkerIds : MediaStep(w)
SpecMedia == InitMedia /\ [][NextMediaRun]_vars

\* One execution on a storage that fails up to MaxFaults times.
InitFaults ==
  InitWith({MaxWorkers}, {FALSE}, {TRUE}, {Ids}, ExploredPosts, TwoPostProfiles, {"scan"})
SpecFaults == InitFaults /\ [][NextOnce]_vars

\* The harvester executed MaxRuns times with -download, with one worker, on a
\* storage that fails up to MaxFaults times and endpoints that answer every
\* request for a document: one slug in the corpus, two posts in a profile.
InitRecover ==
  InitWith({1}, {TRUE}, {TRUE}, {{1}}, {d \in ExploredPosts : d.kind = "post" /\ d.postIdStr = 0},
           TwoPostProfiles \ {FetchErr}, {"scan"})
NextRecover == NextOnce \/ NextRun \/ \E w \in WorkerIds : MediaStep(w)
SpecRecover == InitRecover /\ [][NextRecover]_vars

\* fetchJSONMap called on every pair of responses.
InitFetch == InitCall("call_fetch", Responses \X Responses)
NextFetch == FetchJSONMap
SpecFetch == InitFetch /\ [][NextFetch]_vars

\* The text scans, called on corpora of up to MaxSources sources of up to
\* MaxLines lines (a line with one slug, one with another, one too long for
\* the harvester's buffer, one too long for both buffers, one without
\* a slug), and on every one-line corpus.
SampleLines ==
  {Prefix \o <<"a">>, Prefix \o <<"A">>, <<" ">>,
   Prefix \o Prefix \o Prefix, Prefix \o Prefix \o Prefix \o <<"a">>}
Sources(L) ==
  {[status |-> st, lines |-> ls] : st \in SourceStates, ls \in SeqsUpTo(L, MaxLines)}
Corpora ==
  SeqsUpTo(Sources(SampleLines), MaxSources)
    \cup {<<[status |-> "ok", lines |-> <<l>>]>> : l \in Lines}
InitText == InitCall("call_collect", Corpora) \/ InitCall("call_local", Corpora)
NextText == CollectVineSlugs \/ ScanLocal
SpecText == InitText /\ [][NextText]_vars

\* rewriteURLs called on string leaves of up to MaxParts parts (the legacy
\* hosts, the mirror host, a path, and lone fragments of a host), and on maps
\* and arrays, nested twice, over a sample of leaves of every type.
Parts ==
  LegacyHosts \cup {MirrorHost, <<"/x">>, <<"http">>, <<"v", ".cdn.vine.co">>}
Strings == {Flatten(ps) : ps \in SeqsUpTo(Parts, MaxParts)}
SampleLeaves ==
  {JStr(<<"http", "://", "v", ".cdn.vine.co", "/x">>),
   JStr(<<"http", "s", "://", "mtc", ".cdn.vine.co", "/x">>),
   JStr(MirrorHost \o <<"/x">>), JStr(<<"/x">>), JNum(1), JBool(TRUE), JNull}
Keys == {"avatarUrl", "videoUrl"}
Containers(V) ==
  {JArr(a) : a \in SeqsUpTo(V, MaxElems)}
    \cup {JMap(m) : m \in UNION {[K -> V] : K \in SUBSET Keys}}
Values ==
  {JStr(s) : s \in Strings} \cup SampleLeaves
    \cup Containers(SampleLeaves \cup Containers(SampleLeaves))
InitRewrite == InitCall("call_rewrite", Values)
NextRewrite == RewriteURLs \/ RewriteURLsAgain
SpecRewrite == InitRewrite /\ [][NextRewrite]_vars

\* The extraction of the real id, called on post bodies whose postIdStr and
\* postId are absent, of the expected type (a string, a number up to
\* MaxPostId) or of another type, with a slug or a listed id as the identifier
\* requested.
PostIdStrFields == {NoField, JStr(<<>>), JStr(<<"7">>), JNum(7), JNull}
PostIdFields == {NoField, JStr(<<"9">>), JNull} \cup {JNum(n) : n \in 0..MaxPostId}
PostBodies == {[postIdStr |-> a, postId |-> b] : a \in PostIdStrFields, b \in PostIdFields}
Requested == {<<"a">>, <<"4", "2">>}
InitRealID ==
  \/ InitCall("call_realid_resolve", PostBodies \X Requested)
  \/ InitCall("call_realid_harvest", PostBodies \X Requested)
NextRealID == ResolveRealID \/ HarvestRealID
SpecRealID == InitRealID /\ [][NextRealID]_vars

\* The identifiers up to MaxPostId, each served as a string and as a number,
\* at every place an identifier is extracted.
InitNormalize ==
  \/ InitCall("call_userid", (0..MaxPostId) \X {"field"})
  \/ InitCall("call_postid", (0..MaxPostId) \X {"field"})
  \/ InitCall("call_listentry", (0..MaxPostId) \X {"item", "object", "scan"})
NextNormalize == NormalizeUserID \/ NormalizeRealID \/ NormalizeListEntry
SpecNormalize == InitNormalize /\ [][NextNormalize]_vars

\* collectPostIDsFromProfile called on profiles whose "posts" is absent, an
\* empty list, a list of ids (strings, numbers, objects, with a duplicate and
\* with blanks), a list without any id, or not a list, and which may hold ids
\* elsewhere: at the top level and in a nested object or array.
J1(k, x) == JMap([j \in {k} |-> x])
PostsFields ==
  {NoField, JNull, JStr(<<"1">>), JArr(<<>>), JArr(<<JNull>>), JArr(<<JStr(<<" ">>)>>),
   JArr(<<JStr(<<"1">>)>>), JArr(<<JStr(<<"2">>), JNum(1)>>),
   JArr(<<JStr(<<" ", "1">>), JStr(<<"1">>), JStr(<<"3">>)>>),
   JArr(<<J1("postIdStr", JStr(<<"3">>)), J1("postId", JNum(2))>>)}
TopIdFields == {NoField, JNull, JNum(5), JStr(<<"5">>)}
TopIdStrFields == {NoField, JStr(<<"6">>)}
LatestFields ==
  {NoField, J1("postId", JNum(7)),
   JArr(<<J1("postIdStr", JStr(<<"8">>)), J1("postId", JNum(5))>>)}
WithFields(f) == JMap([k \in {j \in DOMAIN f : f[j] # NoField} |-> f[k]])
Profiles ==
  {WithFields([posts |-> a, postId |-> b, postIdStr |-> c, latest |-> d]) :
      a \in PostsFields, b \in TopIdFields, c \in TopIdStrFields, d \in LatestFields}
InitCollect == InitCall("call_collectids", Profiles)
NextCollect == CollectPostIDs
SpecCollect == InitCollect /\ [][NextCollect]_vars

\* The slug scanners under every value of -loopEvery; every step that can be
\* taken is eventually taken (the Go scheduler runs every runnable goroutine
\* and a sleep ends).
InitLoop ==
  /\ workers \in 1..MaxWorkers
  /\ download = FALSE
  /\ faults = FALSE
  /\ postDocs = {FetchErr}
  /\ profDocs = {FetchErr}
  /\ corpus \in SUBSET Ids
  /\ mainPc = "s_list"
  /\ arg \in [prog : Programs, loopEvery : LoopFlags]
  /\ res = 0
  /\ Fresh
NextLoop ==
  \/ ListTxtObjects \/ Send \/ Close \/ ScanWait \/ WriteSlugs \/ RunOnceReturns \/ Wake
  \/ \E w \in WorkerIds : PoolStep(w) \/ ScanStep(w)
SpecLoop == InitLoop /\ [][NextLoop]_vars /\ WF_vars(NextLoop)

\* The listings of up to MaxPages pages of up to MaxKeys keys, with a failing
\* request or none (failAt = 0).
Listings ==
  UNION {[prog : Programs, pages : {ps}, failAt : 0..Len(ps)] :
           ps \in SeqsUpTo(SeqsUpTo(ObjectKeys, MaxKeys), MaxPages) \ {<<>>}}
InitListing == InitCall("call_list", Listings)
SpecListing == InitListing /\ [][ListObjects]_vars

\* One execution of the harvester with -download, or of the slug scanner:
\* every mutex of the two programs.
InitLocks ==
  InitWith({MaxWorkers}, {TRUE}, {FALSE}, {Ids}, ExploredPosts, ExploredProfiles,
           {"scan", "s_list"})
NextLocks == Next \/ \E w \in WorkerIds : MediaStep(w)
SpecLocks == InitLocks /\ [][NextLocks]_vars

\* One execution with a single worker on a corpus of MaxJobs slugs, more than
\* its queue holds; a slug is answered with the post 1 of user 1 or not at all.
InitQueue ==
  InitWith({1}, {FALSE}, {FALSE}, {JobIds},
           {d \in ExploredPosts : d = FetchErr \/ d.postIdStr = 1}, TwoPostProfiles, {"scan"})
SpecQueue == InitQueue /\ [][NextOnce]_vars

\* The slug scanners from their start, for local and object-store locations
\* and every state of the environment.
InitClient ==
  /\ workers \in 1..MaxWorkers
  /\ download = FALSE
  /\ faults = FALSE
  /\ postDocs = {FetchErr}
  /\ profDocs = {FetchErr}
  /\ corpus \in SUBSET Ids
  /\ mainPc = "start"
  /\ arg \in [prog : Programs, inS3 : BOOLEAN, outS3 : BOOLEAN, env : BOOLEAN, cfgOk : BOOLEAN]
  /\ res = [client |-> FALSE, depth |-> 0]
  /\ Fresh
NextClient ==
  \/ StartScanner \/ NewS3Client \/ ScanLocalFiles
  \/ ListTxtObjects \/ Send \/ Close \/ ScanWait \/ WriteSlugs
  \/ \E w \in WorkerIds : PoolStep(w) \/ ScanStep(w)
SpecClient == InitClient /\ [][NextClient]_vars

\* One execution of the harvester or of a slug scanner for every value of
\* the worker count, from -1 to MaxWorkers.
InitAnyWorkers ==
  \/ InitWith(-1..MaxWorkers, {FALSE}, {FALSE}, {Ids}, ExploredPosts, TwoPostProfiles, {"scan"})
  \/ /\ workers \in -1..MaxWorkers
     /\ download = FALSE
     /\ faults = FALSE
     /\ postDocs = {FetchErr}
     /\ profDocs = {FetchErr}
     /\ corpus \in SUBSET Ids
     /\ mainPc = "s_list"
     /\ arg \in [prog : Programs]
     /\ res = <<>>
     /\ Fresh
SpecAnyWorkers == InitAnyWorkers /\ [][Next]_vars

\* The file names for every user id, post id and URL path explored.
InitPaths ==
  InitCall("call_paths",
           [userID : RemoteNames, realID : SeqsUpTo(Segments, 2) \ {<<>>}, urlPath : RemoteNames])
SpecPaths == InitPaths /\ [][FileNames]_vars

\* ------------------------------------------------------------------- claims
EntityPaths == FinalPaths \ {IndexPath}

\* The wait of the current pool has returned.
AfterWait == mainPc \in {"index", "fatal_nousers", "done", "s_write", "s_done"}

InQueue(j) == \E i \in 1..Len(jobs) : jobs[i] = j

\* Requests that have passed the rate limiter and are not issued yet.
InFlight == Cardinality({w \in Running : wk[w].pc \in {"r_http", "h_phttp", "h_http"}})

\* A worker is inside processUser for user u.
HarvestBusy(u) ==
  \E w \in Running : wk[w].job = u /\ wk[w].pc \notin {"none", "recv", "exit"}

\* The post file a resolved slug goes to (NoFd: the slug is dropped).
ResolvedPath(s) ==
  IF postEP[s].kind = "post" /\ ExtractUserID(postEP[s]) # 0
  THEN PostPath(ExtractUserID(postEP[s]), ExtractRealID(postEP[s], s))
  ELSE NoFd

\* C1: in every reachable state, a file at a final entity path (profiles/<u>.json,
\* posts/<u>/<p>.json, media/<m>) is absent or holds the complete encoding of
\* one record.
C1_FinalFilesComplete ==
  \A p \in EntityPaths : fs[p].exists => IsCompleteRecord(fs[p].data)

\* C2: in the harvest stage no request goes to the post endpoint for a listed
\* post id whose file posts/<u>/<pid>.json exists when the loop reaches it.
C2_NoFetchForExistingPost == hist.refetched = {}

\* C3: the profile of u is requested if and only if profiles/<u>.json is not
\* there when u's job starts: no request before the job has looked, none when
\* the file was there, exactly one when it was not (once the worker is past
\* the rate limiter and the request), and a worker on its way to the request
\* found no file.
C3_ProfileFetchedIffAbsent ==
  /\ \A u \in Users :
       hist.req.profile[u] =
         IF /\ hist.profSeen[u] = "no"
            /\ ~\E w \in Running : wk[w].job = u /\ wk[w].pc \in {"h_pgate", "h_phttp"}
         THEN 1 ELSE 0
  /\ \A w \in Running : wk[w].pc \in {"h_pgate", "h_phttp"} =>
       ~wk[w].existed /\ hist.profSeen[wk[w].job] = "no"

C3_Witness ==
  /\ run = 2
  /\ mainPc = "done"
  /\ \E u, v \in Users :
       /\ hist.profSeen[u] = "yes" /\ hist.req.profile[u] = 0
       /\ hist.profSeen[v] = "no" /\ hist.req.profile[v] = 1

C5_ScheduleIndependent ==
  mainPc = "done" =>
    \A s \in corpus :
      ResolvedPath(s) # NoFd =>
        LET first == CHOOSE t \in corpus :
                       /\ ResolvedPath(t) = ResolvedPath(s)
                       /\ \A t2 \in corpus : ResolvedPath(t2) = ResolvedPath(s) => t <= t2
        IN fs[ResolvedPath(s)] =
             [exists |-> TRUE, data |-> Encode(rewriteURLs(postEP[first]))]

C7_EveryFetchGated == hist.requests + hist.mediaRequests <= hist.passed

\* C8: once the wait of a pool (resolve, harvest, object scan) has returned,
\* the queue is closed and empty, nothing is left to send, and every worker
\* has left its loop: no handler is running.
C8_WaitReturnsAfterDrain ==
  AfterWait =>
    /\ closed
    /\ jobs = <<>>
    /\ pending = <<>>
    /\ wg = 0
    /\ \A w \in Running : wk[w].pc = "exit"

C8_Witness ==
  /\ mainPc = "done"
  /\ workers = MaxWorkers
  /\ hist.sent = Users

\* C9: every job sent on the queue is either still in the queue or has been
\* taken exactly once, never both and never twice; only sent jobs are taken;
\* and when the wait has returned every job of the stage has been taken once.
C9_EachJobOnce ==
  /\ \A j \in Ids \cup Users :
       /\ hist.handled[j] <= 1
       /\ hist.handled[j] = 1 => j \in hist.sent
  /\ \A j \in hist.sent : hist.handled[j] = 1 <=> ~InQueue(j)
  /\ AfterWait =>
       /\ hist.sent = IF mainPc = "done" THEN userSet ELSE corpus
       /\ \A j \in hist.sent : hist.handled[j] = 1

C9_Witness ==
  /\ mainPc = "index"
  /\ workers = MaxWorkers
  /\ hist.sent = Ids
  /\ \A j \in Ids : hist.handled[j] = 1

\* C10: failures of fetches and of the storage stop neither a worker nor the
\* pool: a worker leaves its loop only when the queue is closed and empty;
\* when the wait returns every slug and every user has been handled; and a
\* finished user job has requested every post id its profile lists, whatever
\* failed before.
C10_FailureIsolated ==
  /\ \A w \in Running : wk[w].pc = "exit" => closed /\ jobs = <<>>
  /\ mainPc \in {"index", "fatal_nousers"} => \A s \in corpus : hist.handled[s] = 1
  /\ mainPc = "done" => \A u \in userSet : hist.handled[u] = 1
  /\ InHarvest \/ mainPc = "done" =>
       \A u \in Users :
         hist.handled[u] = 1 /\ ~HarvestBusy(u) =>
           \A i \in 1..Len(hist.listed[u]) : hist.req.harvest[u][hist.listed[u][i]] = 1

C10_Witness ==
  /\ mainPc = "done"
  /\ hist.ioErrs > 0
  /\ \E u \in Users :
       /\ Len(hist.listed[u]) = 2
       /\ postEP[hist.listed[u][1]] = FetchErr
       /\ hist.req.harvest[u][hist.listed[u][2]] = 1
       /\ fs[PostPath(u, hist.listed[u][2])].exists

\* Where a worker is inside a resolve job, and inside a harvest job.
ResolvePcs == {"r_gate", "r_http", "r_lock", "r_ins", "r_check"}
HarvestPcs ==
  {"h_start", "h_pgate", "h_phttp", "h_read", "h_gate", "h_http", "m_lock", "m_check", "m_http"}

\* C11: a scan that yields no slug is fatal: the harvester starts no stage
\* and issues no request, and neither the harvester nor the slug scanner ends
\* in its successful completion state.
C11_EmptyScanIsFatal ==
  /\ corpus = {} /\ mainPc \notin {"s_list", "s_send", "s_wait", "s_write", "s_done", "s_failed"} =>
       mainPc \in {"scan", "fatal_noslugs"} /\ hist.requests = 0
  /\ mainPc = "s_done" => slugs # {}

\* C12: when the resolve stage ends with no user id the run aborts: main
\* goes on to the harvest stage only with a user id, and in the aborted run no
\* profile was requested and no worker is left.
C12_NoUsersIsFatal ==
  /\ mainPc \in {"index", "h_send", "h_wait", "done"} => userSet # {}
  /\ mainPc = "fatal_nousers" =>
       /\ userSet = {}
       /\ \A u \in Users : hist.req.profile[u] = 0
       /\ \A w \in Running : wk[w].pc = "exit"

C12_Witness ==
  /\ mainPc = "fatal_nousers"
  /\ corpus = Ids
  /\ \A s \in Ids : hist.req.resolve[s] = 1 /\ postEP[s] = FetchErr

\* C13: the stages run in order: while main scans no worker exists and no
\* request was made; a worker is inside a resolve job only in the resolve
\* stage and inside a harvest job only in the harvest stage; and once the
\* harvest stage has begun every slug's resolve job has run.
C13_StagesInOrder ==
  /\ mainPc = "scan" /\ run = 1 =>
       jobs = <<>> /\ hist.requests = 0 /\ \A w \in WorkerIds : wk[w].pc = "none"
  /\ \A w \in Running :
       /\ wk[w].pc \in ResolvePcs \/ wk[w].ret = "resolve" => InResolve
       /\ wk[w].pc \in HarvestPcs \/ wk[w].ret \in {"profile", "post", "media"} => InHarvest
  /\ InHarvest \/ mainPc = "done" => \A s \in corpus : hist.req.resolve[s] = 1
  /\ (\E u \in Users : hist.profSeen[u] # "-") => InHarvest \/ mainPc = "done"

C13_Witness ==
  /\ InHarvest
  /\ corpus = Ids
  /\ \E w \in Running : wk[w].pc = "h_phttp"
  /\ \A s \in Ids : hist.req.resolve[s] = 1

\* ----------------------------------------------------- claims on the scans
Returned == mainPc \in {"ret_collect", "ret_local"}
Readable(src) == src.status = "ok"
ShortLines(src) == \A i \in 1..Len(src.lines) : Len(src.lines[i]) < MaxScanTokenSize

\* C14: a scan of a corpus in which one source cannot be listed or opened
\* still completes, and its slug set holds every slug of every readable
\* source (taken here on sources whose lines all fit the line buffer).
C14_UnreadableSourceSkipped ==
  Returned =>
    /\ ~res.err
    /\ \A i \in 1..Len(arg) :
         Readable(arg[i]) /\ ShortLines(arg[i]) => SlugsOfLines(arg[i].lines) \subseteq res.slugs

\* The tokens the statement names in a line: for every position where the
\* prefix occurs followed by a letter or digit, the maximal run after it.
TokensOf(s) ==
  {SubSeq(s, i + Len(Prefix), RunEnd(s, i + Len(Prefix))) : i \in {j \in 1..Len(s) : MatchAt(s, j)}}
TokensOfCorpus(srcs) ==
  UNION {UNION {TokensOf(srcs[i].lines[k]) : k \in 1..Len(srcs[i].lines)} : i \in 1..Len(srcs)}

\* C15: on a corpus whose sources are all readable, the result of the scan
\* is exactly the set of tokens that follow an occurrence of vine.co/v/ on
\* some line of some source.
C15_ExactlyTheTokens ==
  Returned /\ (\A i \in 1..Len(arg) : Readable(arg[i])) => res.slugs = TokensOfCorpus(arg)

\* C16: whatever the length of its lines, every slug the pattern finds on
\* every line of a readable source of a completed scan is in the slug set.
C16_LongLinesTolerated ==
  Returned /\ ~res.err =>
    \A i \in 1..Len(arg) : Readable(arg[i]) => SlugsOfLines(arg[i].lines) \subseteq res.slugs

\* -------------------------------------------------- claims on the rewriter
HasLegacyHost(s) == \E p \in LegacyHosts : Contains(s, p)
RECURSIVE HasLegacyLeaf(_)
HasLegacyLeaf(x) ==
  CASE x.t = "map" -> \E k \in DOMAIN x.v : HasLegacyLeaf(x.v[k])
    [] x.t = "array" -> \E i \in 1..Len(x.v) : HasLegacyLeaf(x.v[i])
    [] x.t = "string" -> HasLegacyHost(x.v)
    [] OTHER -> FALSE

\* C17: rewriting the result of rewriteURLs again gives that result: for
\* every JSON value T, rewriteURLs(rewriteURLs(T)) = rewriteURLs(T).
C17_RewriteIdempotent ==
  mainPc = "ret_rewrite2" => res.twice = res.once /\ res.once = rewriteURLsJSON(arg)

C17_Witness ==
  /\ mainPc = "ret_rewrite2"
  /\ arg.t = "map" /\ HasLegacyLeaf(arg)
  /\ res.once # arg /\ res.twice = res.once

\* y is x but for string leaves that contain a legacy host: same type at every
\* position, same keys, same lengths and element order, every other leaf equal.
RECURSIVE SameButLegacy(_, _)
SameButLegacy(x, y) ==
  /\ y.t = x.t
  /\ CASE x.t = "map" ->
            DOMAIN y.v = DOMAIN x.v /\ \A k \in DOMAIN x.v : SameButLegacy(x.v[k], y.v[k])
       [] x.t = "array" ->
            Len(y.v) = Len(x.v) /\ \A i \in 1..Len(x.v) : SameButLegacy(x.v[i], y.v[i])
       [] x.t = "string" -> HasLegacyHost(x.v) \/ y.v = x.v
       [] OTHER -> y = x

\* C18: the result of rewriteURLs has the keys, the lengths, the element
\* order and the types of its argument, and every number, boolean, null and
\* every string leaf without a legacy host is the one of the argument.
C18_OnlyLegacyLeavesChange ==
  mainPc = "ret_rewrite" => SameButLegacy(arg, res)

C18_Witness ==
  /\ mainPc = "ret_rewrite"
  /\ arg.t = "map" /\ DOMAIN arg.v = Keys
  /\ arg.v["avatarUrl"].t = "array" /\ Len(arg.v["avatarUrl"].v) = 2
  /\ arg.v["avatarUrl"].v[1] = JNum(1) /\ HasLegacyLeaf(arg.v["avatarUrl"].v[2])
  /\ arg.v["videoUrl"] = JStr(<<"/x">>)
  /\ res # arg

\* ------------------------------------------- claims on the persisted records
RecordPaths == {p \in Paths : p.dir \in {"profiles", "posts"}}

\* The record the endpoint served for the write a worker is in.
ServedTo(r) ==
  CASE r.ret = "resolve" -> postEP[r.job]
    [] r.ret = "profile" -> profEP[r.job]
    [] r.ret = "post" -> postEP[Head(r.posts)]

\* d with the mirror host in the place of the legacy host, the path kept.
OnMirror(d) ==
  IF d.url.host = "legacy" THEN [d EXCEPT !.url = [host |-> "mirror", path |-> d.url.path]] ELSE d

HoldsMirror(data) == \E i \in 1..Len(data) : data[i][1] = "url" /\ data[i][2] = "mirror"

\* C19: no profile or post file, final or temporary, holds a string leaf on a
\* legacy host, and what a worker writes to such a file in either stage is
\* the encoding of the served record with the mirror host in the place of the
\* legacy host and the path kept.
C19_PersistedRecordsRewritten ==
  /\ \A p \in RecordPaths :
       fs[p].exists => \A i \in 1..Len(fs[p].data) : fs[p].data[i][2] # "legacy"
  /\ \A w \in Running :
       wk[w].ret \in {"resolve", "profile", "post"} =>
         /\ ServedTo(wk[w]).url.host = "legacy"
         /\ wk[w].data = Encode(OnMirror(ServedTo(wk[w])))

C19_Witness ==
  /\ mainPc = "done"
  /\ \E u \in Users, q \in Ids :
       /\ profEP[u].kind = "profile" /\ profEP[u].url.host = "legacy"
       /\ postEP[q].kind = "post" /\ postEP[q].url.host = "legacy"
       /\ fs[ProfilePath(u)].exists /\ fs[ProfilePath(u)].data = Encode(OnMirror(profEP[u]))
       /\ fs[PostPath(u, q)].exists /\ HoldsMirror(fs[PostPath(u, q)].data)
       /\ hist.req.harvest[u][q] = 1

\* ---------------------------------------------------- claims on the real id
\* C20: the post id extracted from a served post is its postIdStr when that
\* is a non-empty string, else its postId in decimal when that is a number,
\* else the identifier requested; it is never empty.
C20_RealIDByPrecedence ==
  mainPc \in {"ret_realid_resolve", "ret_realid_harvest"} =>
    LET body == arg[1]
    IN /\ res # <<>>
       /\ res = IF body.postIdStr.t = "string" /\ body.postIdStr.v # <<>>
                THEN body.postIdStr.v
                ELSE IF body.postId.t = "number" THEN Decimal(body.postId.v)
                     ELSE arg[2]

\* --------------------------------------------- claims on the identifiers
Digit == {"0", "1", "2", "3", "4", "5", "6", "7", "8", "9"}
IsDecimal(s) == s # <<>> /\ \A i \in 1..Len(s) : s[i] \in Digit

\* C21: an identifier served as a string field and the same identifier served
\* as a JSON number are extracted as the same string of decimal digits, for
\* user ids, post ids and entries of a profile's post list.
C21_StringAndNumberAgree ==
  /\ mainPc \in {"ret_userid", "ret_postid"} => res.num = res.str /\ IsDecimal(res.num)
  /\ mainPc = "ret_listentry" =>
       /\ res.num = res.str
       /\ Len(res.num) = 1 /\ IsDecimal(res.num[1])

\* ------------------------------------------ claims on the post-id collection
\* The "posts" list of the profile collected from, and whether it is there
\* and not empty.
PostsOf(profile) == Field(DecodeJSON(profile).v, "posts")
HasPostsList(profile) == PostsOf(profile).t = "array" /\ PostsOf(profile).v # <<>>
ListedIDs(profile) ==
  {TrimSpace(ItemID(PostsOf(profile).v[i])) : i \in 1..Len(PostsOf(profile).v)}

\* C22: when the profile has a posts list that is not empty, every id
\* returned is an id of that list (no deep scan has contributed); when the
\* list is absent or empty the result is that of the deep scan.
C22_DeepScanIffNoList ==
  mainPc = "ret_collectids" =>
    IF HasPostsList(arg)
    THEN \A i \in 1..Len(res) : res[i] \in ListedIDs(arg)
    ELSE \E ord \in Perms(ProfileKeys) : res = Walk(DecodeJSON(arg), <<>>, ord)

\* The order in which the keys of a profile are written in its file.
DocumentOrder == <<"posts", "postId", "postIdStr", "latest">>

\* C23: the list returned has no duplicate and no empty id, and it is the
\* one sequence the record determines: its ids in first-seen order.
C23_FirstSeenOrder ==
  mainPc = "ret_collectids" =>
    /\ \A i, j \in 1..Len(res) : i # j => res[i] # res[j]
    /\ \A i \in 1..Len(res) : res[i] # <<>>
    /\ res = collectPostIDsJSON(DecodeJSON(arg), DocumentOrder)

\* ------------------------------------------------ claims on the two stages
\* The resolve stage is over: fetchUsersFromSlugs has returned.
AfterResolve == mainPc \in {"index", "h_send", "h_wait", "done"}

\* The slugs whose post was fetched with a user id.
Resolved == {s \in corpus : postEP[s].kind = "post" /\ ExtractUserID(postEP[s]) # 0}

\* C24: once the resolve stage is over, the user of every slug whose post was
\* fetched with a user id is in the user-id set, and its post file
\* posts/<u>/<p>.json exists unless a storage operation has failed; and at all
\* times the user-id set holds only user ids of fetched posts of scanned slugs.
C24_ResolveRecordsAndPersists ==
  /\ AfterResolve =>
       \A s \in Resolved :
         /\ ExtractUserID(postEP[s]) \in userSet
         /\ hist.ioErrs = 0 => fs[ResolvedPath(s)].exists
  /\ userSet \subseteq {ExtractUserID(postEP[s]) : s \in Resolved}

C24_Witness ==
  /\ mainPc = "index"
  /\ hist.ioErrs = 0
  /\ Resolved = Ids
  /\ userSet = {ExtractUserID(postEP[s]) : s \in Ids}
  /\ \A s \in Ids : fs[ResolvedPath(s)].exists /\ hist.req.resolve[s] = 1

\* The post ids processUser took from u's profile and requested.
Requested25(u) ==
  {hist.listed[u][i] : i \in 1..Len(hist.listed[u])} \cap {q \in Ids : hist.req.harvest[u][q] > 0}

\* The destination of listed post q of user u.
Destination(u, q) == PostPath(u, ExtractRealID(postEP[q], q))

\* C25: when the harvest is over and no storage operation has failed, every
\* listed post of a user that was fetched has its file posts/<u>/<id>.json,
\* which holds the rewritten record of a listed post with that destination
\* when the resolve stage has not written there; and no listed post whose
\* fetch failed has a file.
C25_HarvestPersistsFetchedOnly ==
  mainPc = "done" /\ hist.ioErrs = 0 =>
    \A u \in Users : \A q \in Requested25(u) :
      IF postEP[q].kind = "post"
      THEN /\ fs[Destination(u, q)].exists
           /\ (\A s \in Resolved : ResolvedPath(s) # Destination(u, q)) =>
                \E q2 \in Requested25(u) :
                  /\ postEP[q2].kind = "post"
                  /\ Destination(u, q2) = Destination(u, q)
                  /\ fs[Destination(u, q)].data = Encode(OnMirror(postEP[q2]))
      ELSE ~fs[PostPath(u, q)].exists

\* A listed post of u whose destination the resolve stage does not write: an
\* execution without failures writes it in the harvest stage, and then
\* downloads its media.
HarvestWritten(u, q) ==
  /\ q \in Requested25(u)
  /\ postEP[q].kind = "post"
  /\ \A s \in Resolved : ResolvedPath(s) # Destination(u, q)

\* C26: when a second execution in which no storage operation and no request
\* fails is over, whatever has failed in the first one, the tree holds what an
\* execution without failures leaves: the profile of every user, the file
\* of every listed post and, with -download, the media of every post that
\* the harvest stage writes.
C26_RerunRecoversMissing ==
  /\ run = 2 /\ mainPc = "done"
  /\ hist.ioErrs = hist.errsRun1
  /\ \A m \in Media : mediaEP[m] # "error"
  => \A u \in userSet :
       /\ fs[ProfilePath(u)].exists
       /\ \A q \in Requested25(u) : fs[Destination(u, q)].exists
       /\ \A q \in Ids :
            download /\ HarvestWritten(u, q) =>
              \A i \in 1..Len(collectMediaURLs(OnMirror(postEP[q]))) :
                fs[MediaPath(collectMediaURLs(OnMirror(postEP[q]))[i])].exists

\* ------------------------------------------------- claims on the requests
RECURSIVE SumOver(_, _)
SumOver(f, S) ==
  IF S = {} THEN 0
  ELSE LET x == CHOOSE y \in S : TRUE IN f[x] + SumOver(f, S \ {x})

\* C27: within one execution at most one request goes out for a slug, at most
\* one for the profile of a user and at most one for a post id of a user's
\* list, whether it succeeds or fails; every call of fetchJSONMap is one
\* request.
C27_NeverRetries ==
  /\ \A s \in Ids : hist.req.resolve[s] <= 1
  /\ \A u \in Users : hist.req.profile[u] <= 1
  /\ \A u \in Users : \A q \in Ids : hist.req.harvest[u][q] <= 1
  /\ hist.requests =
       SumOver(hist.req.resolve, Ids) + SumOver(hist.req.profile, Users)
         + SumOver([u \in Users |-> SumOver(hist.req.harvest[u], Ids)], Users)

C27_Witness ==
  /\ mainPc = "done"
  /\ \E s \in corpus : postEP[s] = FetchErr /\ hist.req.resolve[s] = 1
  /\ \E u \in Users : profEP[u].kind = "profile" /\ hist.req.profile[u] = 1
  /\ \E u \in Users, q \in Ids : postEP[q] = FetchErr /\ hist.req.harvest[u][q] = 1

\* The class the statement gives the outcome of a response.
ErrorClass(resp) ==
  CASE resp.transport = "fail" -> "Transport"
    [] resp.status = 404 -> "NotFound"
    [] resp.status = 403 -> "Forbidden"
    [] resp.status # 200 -> "OtherHTTP"
    [] resp.body \in {"object", "null"} -> "Value"
    [] OTHER -> "Decode"

\* What a caller can tell the class of an error from: its type and the
\* format of its message.
Shape(err) == <<err.type, err.format>>

\* C28: fetchJSONMap returns a value and no error when the status is 200 and
\* the body decodes, and an error and no value otherwise; and the error tells
\* its class: two errors that a caller cannot tell apart are of the same class
\* among NotFound, Forbidden, OtherHTTP, Transport and Decode.
C28_ErrorsClassified ==
  mainPc = "ret_fetch" =>
    /\ \A i \in 1..2 :
         IF ErrorClass(arg[i]) = "Value"
         THEN res[i].err = NoErr /\ res[i].val # "nil"
         ELSE res[i].err # NoErr /\ res[i].val = "nil"
    /\ Shape(res[1].err) = Shape(res[2].err) => ErrorClass(arg[1]) = ErrorClass(arg[2])

\* The workers inside the download of media file m: at its request or at the
\* write of its file.
Downloading(m) ==
  {w \in Running : /\ wk[w].media # <<>> /\ Head(wk[w].media) = m
                   /\ (wk[w].pc = "m_http" \/ wk[w].ret = "media")}

\* C29: with -download, whatever the interleaving of the harvest workers, at
\* most one request goes out for a media URL in an execution and at most one
\* worker writes its file.
C29_MediaOncePerRun ==
  \A m \in Media :
    /\ hist.req.media[m] <= 1
    /\ Cardinality(Downloading(m)) <= 1
    /\ hist.req.media[m] = 0 => \A w \in Running : wk[w].ret # "media"

C29_Witness ==
  /\ download
  /\ \E m \in Media :
       /\ hist.req.media[m] = 1
       /\ \E w1, w2 \in Running :
            /\ w1 # w2
            /\ wk[w1].ret = "media" /\ Head(wk[w1].media) = m
            /\ wk[w2].pc = "m_check" /\ Head(wk[w2].media) = m
            /\ wk[w1].job # wk[w2].job

NoRepeat(s) == \A i, j \in 1..Len(s) : i # j => s[i] # s[j]

\* C30: within one execution no id is put on the queue of a stage twice: what
\* is still to be sent or waits in the queue holds no id twice and none that
\* was sent before; the resolve queue receives slugs of the corpus and the
\* harvest queue the users the resolve workers discovered, whichever slugs
\* led to them and in whichever order.
C30_NoIdEnqueuedTwice ==
  mainPc \in {"r_send", "r_wait", "index", "h_send", "h_wait", "done"} =>
    /\ NoRepeat(pending \o jobs)
    /\ \A i \in 1..Len(pending) : pending[i] \notin hist.sent
    /\ \A i \in 1..Len(jobs) : jobs[i] \in hist.sent
    /\ mainPc \in {"r_send", "r_wait", "index"} => hist.sent \subseteq corpus
    /\ mainPc \in {"h_send", "h_wait", "done"} =>
         /\ hist.sent \subseteq userSet
         /\ NoRepeat(userIDs)

C30_Witness ==
  /\ mainPc = "done"
  /\ workers = MaxWorkers
  /\ corpus = Ids
  /\ \E u \in Users :
       /\ \A id \in Ids : postEP[id].kind = "post" /\ ExtractUserID(postEP[id]) = u
       /\ hist.sent = {u}
       /\ hist.handled[u] = 1

\* -------------------------------------------------- claims on the main loop
\* No goroutine of a pool is left: each has returned or was never started.
PoolGone == wg = 0 /\ \A w \in WorkerIds : wk[w].pc \in {"none", "exit"}

Ended == mainPc \in {"exit", "fatal_runonce"}

\* C31: with a poll interval other than zero every call of runOnce, whether
\* it returned an error or not, is followed by a sleep and the sleep by a new
\* call, which starts when nothing of the previous one is left; with an
\* interval of zero there is one call and then the program ends.
C31_LoopsOrRunsOnce ==
  /\ [](mainPc \in {"s_done", "s_failed"} /\ arg.loopEvery # 0 => <>(mainPc = "sleep"))
  /\ [](mainPc = "sleep" => <>(mainPc = "s_list"))
  /\ [](mainPc \in {"sleep", "s_list", "exit", "fatal_runonce"} => PoolGone)
  /\ [](arg.loopEvery = 0 => res = 0)
  /\ (arg.loopEvery = 0 => <>Ended)

\* -------------------------------------------------- claims on the listing
\* The extensions a scanner asks for: ".txt", in any case for part_000.
Required(prog) == IF prog = "part_000" THEN {".txt", ".TXT"} ELSE {".txt"}

\* The keys of the pages from the i-th on, page after page, that carry a
\* required extension.
RECURSIVE KeysOfPages(_, _, _)
KeysOfPages(prog, pages, i) ==
  IF i > Len(pages) THEN <<>>
  ELSE SelectSeq(pages[i], LAMBDA k : k.ext \in Required(prog)) \o KeysOfPages(prog, pages, i + 1)

\* C32: a listing whose requests all succeed returns the keys with the
\* required suffix of every page, page after page and in the order of each
\* page, none dropped and none repeated; it fails exactly when a request
\* fails.
C32_ListsEveryPage ==
  mainPc = "ret_list" =>
    /\ res.err <=> arg.failAt # 0
    /\ ~res.err => res.keys = KeysOfPages(arg.prog, arg.pages, 1)

C32_Witness ==
  /\ mainPc = "ret_list"
  /\ Len(arg.pages) = MaxPages
  /\ \A i \in 1..MaxPages : Len(arg.pages[i]) = MaxKeys
  /\ ~res.err
  /\ Len(res.keys) = 3
  /\ res.keys[1] = arg.pages[1][1] /\ res.keys[3] = arg.pages[MaxPages][MaxKeys]

\* ---------------------------------------------------- claims on the locks
\* The mutexes worker w holds.
Held(w) ==
  {mu \in {"userMu", "downloadedMedia.mu", "mu"} :
     \/ mu = "userMu" /\ userMu = w
     \/ mu = "downloadedMedia.mu" /\ mediaMu = w
     \/ mu = "mu" /\ slugMu = w}

\* Where a worker waits on the rate gate, performs a request or writes.
AtGate == {"r_gate", "h_pgate", "h_gate"}
AtRequest == {"r_http", "h_phttp", "h_http", "m_http", "s_get"}
AtWrite == {"w_create", "w_write", "w_rename"}

\* C33: a worker that holds the mutex of the user set, of the downloaded
\* media or of the slug set is at the insertion into that set and nowhere
\* else: never waiting on the rate gate, in a request or in a write.
C33_LocksOnlyAroundInsert ==
  \A w \in WorkerIds :
    /\ Held(w) # {} => wk[w].pc \notin AtGate \cup AtRequest \cup AtWrite
    /\ userMu = w => wk[w].pc = "r_ins"
    /\ mediaMu = w => wk[w].pc = "m_check"
    /\ slugMu = w => wk[w].pc = "s_ins"

C33_Witness ==
  \E w1, w2 \in Running :
    /\ w1 # w2
    /\ mediaMu = w1
    /\ wk[w2].pc = "m_lock"
    /\ Head(wk[w1].media) = Head(wk[w2].media)

\* ---------------------------------------------------- claims on the queue
\* C34: in the resolve and harvest stages the queue never holds more than
\* twice the worker count of jobs, and while it holds that many the producer
\* sends nothing: its next job goes in only after a worker has taken one.
C34_QueueBounded ==
  [][(InResolve \/ InHarvest) =>
       /\ Len(jobs) <= 2 * workers
       /\ Len(jobs') <= 2 * workers
       /\ Len(jobs) = 2 * workers => pending' = pending]_vars

C34_Witness ==
  /\ mainPc = "r_send"
  /\ Len(jobs) = 2 * workers
  /\ pending # <<>>
  /\ \A w \in Running : wk[w].pc = "recv"

\* ------------------------------------------- claims on the storage client
\* Nothing of the scan has happened: no listing, no read, no write.
NothingAttempted ==
  /\ slugs = {} /\ slugFile = <<>>
  /\ hist.sent = {}
  /\ \A w \in WorkerIds : wk[w].pc = "none"

Scanning == mainPc \in {"s_list", "s_local", "s_send", "s_wait", "s_write", "s_done", "s_failed"}

\* C35: the initialisation of the storage client comes to an end: with the
\* settings present (and a configuration that loads) the scan goes on with a
\* client, otherwise the run is aborted with nothing listed, read or written;
\* and there is a call only when a location starts with "s3://".
C35_ClientOrAbort ==
  /\ mainPc # "fatal_stack"
  /\ res.depth = 0
  /\ Scanning => (res.client <=> UsesS3)
  /\ Scanning /\ UsesS3 => arg.env /\ arg.cfgOk
  /\ mainPc \in {"new_client", "fatal_env", "fatal_config"} => UsesS3 /\ NothingAttempted
  /\ mainPc = "fatal_env" => ~arg.env
  /\ mainPc = "fatal_config" => arg.env /\ ~arg.cfgOk

\* ------------------------------------------- claims on the worker count
\* The producer of a stage has a job to send and cannot: the queue has no
\* room for it.
ProducerBlocked ==
  /\ mainPc \in {"r_send", "h_send", "s_send"}
  /\ pending # <<>>
  /\ ~CanSend

\* C36: whatever the worker count, zero and negative values included, no
\* stage is left with its producer blocked on a queue that no worker drains,
\* and none ends in a panic: a blocked producer has a worker that is still
\* in its loop.
C36_StagesTerminate ==
  /\ mainPc # "panic_makechan"
  /\ ProducerBlocked => \E w \in Running : wk[w].pc \notin {"none", "exit"}

\* ------------------------------------------- claims on the temporary files
\* The workers between the existence check of a destination and the rename
\* onto it: inside writeJSONFile or the media write.
Writing == {w \in Running : wk[w].pc \in AtWrite}

\* C37: no two workers are at the same time between the existence check and
\* the rename for one destination, so that none shares its temporary file
\* (destination + ".tmp") with another.
C37_OneWriterPerDestination ==
  \A w1, w2 \in Writing : w1 # w2 => wk[w1].path # wk[w2].path

\* The temporary files present in the output tree.
Leftover == {p \in Paths : p.tmp /\ fs[p].exists}

\* C40: when an execution has ended ("All done.", or one of the fatal exits
\* of main) no temporary file is left in the output tree, whichever writes
\* have failed.
C40_NoTmpLeft ==
  mainPc \in {"done", "fatal_nousers", "fatal_noslugs"} => Leftover = {}

\* ------------------------------------------------ claims on the file names
\* path is dir or lies under it.
Under(dir, path) == Len(path) >= Len(dir) /\ SubSeq(path, 1, Len(dir)) = dir

\* path names a file (its last element is a name) that is not inside the
\* output root.
Outside(path) == path # <<>> /\ path[Len(path)] # DotDot /\ ~Under(outDir, path)

\* C38: every file the harvester creates lies inside the output root,
\* whatever the user id, the post id and the URL path taken from the remote
\* data contain, path separators and ".." elements included.
C38_FilesInsideRoot ==
  mainPc = "ret_paths" =>
    /\ ~Outside(res.profile)
    /\ ~Outside(res.post)
    /\ ~Outside(res.media)

\* ------------------------------------------- claims on the concurrent scan
SlugsOf(keys) == UNION {ObjectSlugs(k) : k \in keys}

AfterScan == mainPc \in {"s_write", "s_done"}

\* C39: when the wait of the concurrent scan has returned, the slug set
\* holds every slug of every object that was read to its end, whatever the
\* worker count and the order of the insertions, and nothing but slugs of
\* the objects listed.
C39_NoSlugLost ==
  AfterScan => SlugsOf(hist.read) \subseteq slugs /\ slugs \subseteq SlugsOf(corpus)

C39_Witness ==
  /\ mainPc = "s_write"
  /\ workers = MaxWorkers
  /\ corpus = Ids
  /\ hist.read = Ids
  /\ slugs = SlugsOf(Ids)

\* The statement as it stands: the slug set is the union of the slugs of the
\* objects read to their end.
C39_ExactlyTheReadSources == AfterScan => slugs = SlugsOf(hist.read)

====
